---- MODULE Spec2Model ----
(***************************************************************************)
(* A model of the transfer engine of fisy: the parallel pair DFS           *)
(* (filePairPDFS), the per-pair transfer (Upload), the inode coordination  *)
(* set (linkSet) and the retry helper (remote.Idempotent).                 *)
(***************************************************************************)
EXTENDS Integers, Sequences, FiniteSets, TLC

(***************************************************************************)
(* Bounds.                                                                 *)
(***************************************************************************)
\* Largest number of pairs in the abstract traversal tree.
MaxNodes == 3
\* Largest worker count (nconc) tried.
MaxWorkers == 2

VARIABLES
    \* filePairPDFSData
    stack, nact, failed,
    \* the goroutines of filePairPDFS
    pc, cur, kids, werr, watcherDone,
    \* contexts and the errgroup
    ctxDone, cctxDone, egErr, result,
    \* the arguments of filePairPDFS: the pair tree fun walks, and nconc
    nnodes, parent, nconc,
    \* observations of the run, used to state properties only
    calls, errs, firstFail, cancelLive,
    \* the source tree, the destination tree, and the snapshot a COW
    \* destination reads; whether the destination is a COW; the ignore filter
    src, dest, prev, cow, ignored,
    \* Upload: srcLinks.inodes, stats, and each worker's attempt in progress
    inodes, stats, att,
    \* connection losses still to come, the number of the run, and the
    \* destination as it was before the first run
    faults, runNo, dest0,
    \* a pair given to filePair.FileOperation, and what it returned
    pair, fileOp,
    \* the symlinks and snapshot directories of a COW's backend, and the COW
    \* of the run in progress
    cowStore, cowInst,
    \* the receiver and argument given to Path.Resolve, and what it returned
    resolveArg, resolved,
    \* a ReconnectingSFTPClient: its fields, the calls in progress, and what
    \* has been observed of its dialer and its clients
    rclient, rops, rlog

pdfsVars == <<stack, nact, failed, pc, cur, kids, werr, watcherDone,
              ctxDone, cctxDone, egErr, result>>
argVars == <<nnodes, parent, nconc>>
obsVars == <<calls, errs, firstFail, cancelLive>>
fsVars == <<src, dest, prev, cow, ignored>>
upVars == <<inodes, stats, att, faults, runNo, dest0>>
\* The state of the parts that are exercised on their own.
pairVars == <<pair, fileOp>>
cowVars == <<cowStore, cowInst>>
pathVars == <<resolveArg, resolved>>
sftpVars == <<rclient, rops, rlog>>
unitVars == <<pairVars, cowVars, pathVars, sftpVars>>
vars == <<pdfsVars, argVars, obsVars, fsVars, upVars, unitVars>>

(***************************************************************************)
(* Error values.                                                           *)
(***************************************************************************)
NilErr == [kind |-> "nil", at |-> 0]
Canceled == [kind |-> "canceled", at |-> 0]
Running == [kind |-> "running", at |-> 0]
FnErr(n) == [kind |-> "fn", at |-> n]

Workers == 1..MaxWorkers
Spawned == 1..nconc
Nodes == 1..nnodes

\* The pairs fun returns for pair n, in the order it returns them.
RECURSIVE ChildrenFrom(_, _)
ChildrenFrom(n, k) ==
    IF k > nnodes THEN <<>>
    ELSE IF parent[k] = n THEN <<k>> \o ChildrenFrom(n, k + 1)
    ELSE ChildrenFrom(n, k + 1)
Children(n) == ChildrenFrom(n, 1)
Roots == Children(0)

\* sync.Cond.Broadcast: every goroutine blocked in Wait re-evaluates.
Broadcast(p) == [w \in Workers |-> IF p[w] = "wait" THEN "take" ELSE p[w]]

(***************************************************************************)
(* filePairPDFSData.take                                                   *)
(***************************************************************************)
take_mustWait_never == FALSE
take_mustWait == Len(stack) = 0 /\ nact > 0 /\ ~failed
take_pop_nostop(s) == s
take_pop(s) == SubSeq(s, 1, Len(s) - 1)
take_nact_noinc(n) == n
take_nact(n) == n + 1
\* take returns nil: the traversal has failed, or there is nothing left.
take_stops_onempty == Len(stack) = 0
take_stops == failed \/ Len(stack) = 0

Take(w) ==
    /\ pc[w] = "take"
    /\ IF take_mustWait
       THEN /\ pc' = [pc EXCEPT ![w] = "wait"]
            /\ UNCHANGED <<stack, nact, cur>>
       ELSE IF take_stops
       THEN /\ pc' = [pc EXCEPT ![w] = "ret"]
            /\ UNCHANGED <<stack, nact, cur>>
       ELSE /\ cur' = [cur EXCEPT ![w] = stack[Len(stack)]]
            /\ stack' = take_pop(stack)
            /\ nact' = take_nact(nact)
            /\ pc' = [pc EXCEPT ![w] = "fn"]
    /\ UNCHANGED <<failed, kids, werr, watcherDone, ctxDone, cctxDone, egErr,
                   result, argVars, unitVars, obsVars, fsVars, upVars>>

(***************************************************************************)
(* filePairPDFSData.give                                                   *)
(***************************************************************************)
give_wakes_never(s, fps) == FALSE
give_wakes(s, fps) == Len(s) = Len(fps)

Give(w) ==
    /\ pc[w] = "give"
    /\ stack' = stack \o kids[w]
    /\ nact' = nact - 1
    /\ pc' = IF give_wakes(stack', kids[w])
             THEN [Broadcast(pc) EXCEPT ![w] = "take"]
             ELSE [pc EXCEPT ![w] = "take"]
    /\ kids' = [kids EXCEPT ![w] = <<>>]
    /\ UNCHANGED <<failed, cur, werr, watcherDone, ctxDone, cctxDone, egErr,
                   result, argVars, unitVars, obsVars, fsVars, upVars>>

(***************************************************************************)
(* filePairPDFSData.fail                                                   *)
(***************************************************************************)
Fail(w) ==
    /\ pc[w] = "fail"
    /\ nact' = nact - 1
    /\ failed' = TRUE
    /\ pc' = IF ~failed
             THEN [Broadcast(pc) EXCEPT ![w] = "reterr"]
             ELSE [pc EXCEPT ![w] = "reterr"]
    /\ firstFail' = IF ~failed THEN cur[w] ELSE firstFail
    /\ UNCHANGED <<stack, cur, kids, werr, watcherDone, ctxDone, cctxDone,
                   egErr, result, argVars, unitVars, calls, errs, cancelLive,
                   fsVars, upVars>>

(***************************************************************************)
(* filePairPDFSData.loop: the return paths                                 *)
(***************************************************************************)
\* fp == nil: return ctx.Err()
loop_ctxErr_nil == NilErr
loop_ctxErr == IF cctxDone THEN Canceled ELSE NilErr

LoopCtxErr(w) ==
    /\ pc[w] = "ret"
    /\ werr' = [werr EXCEPT ![w] = loop_ctxErr]
    /\ pc' = [pc EXCEPT ![w] = "reterr"]
    /\ UNCHANGED <<stack, nact, failed, cur, kids, watcherDone, ctxDone,
                   cctxDone, egErr, result, argVars, unitVars, obsVars, fsVars, upVars>>

\* errgroup.Group.Go: the goroutine's function has returned werr[w]; the
\* first non-nil error is kept and cancels the group's context.
egGo_keepsLast(e) == e # NilErr
egGo_keepsFirst(e) == egErr = NilErr /\ e # NilErr

EgReturn(w) ==
    /\ pc[w] = "reterr"
    /\ pc' = [pc EXCEPT ![w] = "done"]
    /\ IF egGo_keepsFirst(werr[w])
       THEN egErr' = werr[w] /\ cctxDone' = TRUE
       ELSE UNCHANGED <<egErr, cctxDone>>
    /\ UNCHANGED <<stack, nact, failed, cur, kids, werr, watcherDone, ctxDone,
                   result, argVars, unitVars, obsVars, fsVars, upVars>>

(***************************************************************************)
(* filePairPDFS: eg.Wait, the watcher goroutine, and the caller's cancel   *)
(***************************************************************************)
EgWait ==
    /\ result = Running
    /\ \A w \in Spawned : pc[w] = "done"
    /\ result' = egErr
    /\ cctxDone' = TRUE
    /\ UNCHANGED <<stack, nact, failed, pc, cur, kids, werr, watcherDone,
                   ctxDone, egErr, argVars, unitVars, obsVars, fsVars, upVars>>

Watcher ==
    /\ ~watcherDone
    /\ cctxDone
    /\ watcherDone' = TRUE
    /\ failed' = TRUE
    /\ pc' = Broadcast(pc)
    /\ UNCHANGED <<stack, nact, cur, kids, werr, ctxDone, cctxDone, egErr,
                   result, argVars, unitVars, obsVars, fsVars, upVars>>

\* The caller cancels the context passed to filePairPDFS while it runs.
Cancel ==
    /\ ~ctxDone
    /\ result = Running
    /\ ctxDone' = TRUE
    /\ cctxDone' = TRUE
    /\ cancelLive' = (\E w \in Spawned : pc[w] \notin {"reterr", "done"})
    /\ UNCHANGED <<stack, nact, failed, pc, cur, kids, werr, watcherDone,
                   egErr, result, argVars, unitVars, calls, errs, firstFail,
                   fsVars, upVars>>

(***************************************************************************)
(* File systems.  A path is a sequence of names (the root is <<>>, which   *)
(* also stands for the empty fs.Path); a file system maps every path to    *)
(* its entry, NoEnt where there is none.  An entry holds what os.FileInfo  *)
(* and fs.FileAttrs tell of it; names of one inode carry the same ino.     *)
(***************************************************************************)
AllPaths == {<<1>>, <<2>>, <<3>>, <<3, 1>>}
Names == <<1, 2, 3>>
RootPath == <<>>

NoEnt == [kind |-> "none", ino |-> 0, nlink |-> 0, size |-> 0, mode |-> 0,
          mtime |-> 0, tgt |-> 0]
EmptyFS == [p \in AllPaths |-> NoEnt]

\* fs.Path.Dir and fs.Path.Resolve on relative paths.
Dir(p) == SubSeq(p, 1, Len(p) - 1)
Resolve(d, name) == Append(d, name)

IsDir(e) == e.kind = "dir"
IsSymlink(e) == e.kind = "symlink"

\* time.Second, in the ticks mtimes are counted in.
Second == 2
\* time.Time.Truncate(time.Second)
Truncate(t) == t - (t % Second)
\* The time of the run: later than every mtime of the source.
Now == 5 * Second

\* mode | 0200, mode &^ 0200 and mode & commonModeMask; the type bits of an
\* entry are its kind, so a mode holds permission bits only.
HasOwnerWrite(m) == (m \div 128) % 2 = 1
OrOwnerWrite(m) == IF HasOwnerWrite(m) THEN m ELSE m + 128
ClearOwnerWrite(m) == IF HasOwnerWrite(m) THEN m - 128 ELSE m
MaskMode(m) == m % 1048576

\* Inode numbers in use on the destination, and the one a new file gets.
UsedInos(f, g) == {f[p].ino : p \in AllPaths} \cup {g[p].ino : p \in AllPaths}
FreshIno(f, g) == CHOOSE i \in 1..(2 * Cardinality(AllPaths) + 1) :
                     /\ i \notin UsedInos(f, g)
                     /\ \A j \in 1..(i - 1) : j \in UsedInos(f, g)

Exists(f, p) == p \in AllPaths /\ f[p].kind # "none"
ParentOk(f, p) == Len(p) = 1 \/ IsDir(f[Dir(p)])
Below(p, q) == Len(q) > Len(p) /\ SubSeq(q, 1, Len(p)) = p
HasChildren(f, p) == \E q \in AllPaths : Below(p, q) /\ Exists(f, q)

\* Attribute changes reach every name of the inode.
SetAttr(f, ino, e) ==
    [q \in AllPaths |-> IF f[q].kind # "none" /\ f[q].ino = ino
                        THEN [f[q] EXCEPT !.size = e.size, !.mode = e.mode,
                                          !.mtime = e.mtime]
                        ELSE f[q]]

\* The outcome of a backend call: the file system after it and its error.
Res(f, e) == [fs |-> f, err |-> e]
ErrOf(k) == [kind |-> k, at |-> 0]

\* A call made while the connection is lost fails with a retriable error,
\* whether the server carried it out ("lostAfter") or not ("lostBefore").
Faulty(fault, before, after) ==
    CASE fault = "lostAfter" ->
           Res(after.fs, IF after.err = NilErr THEN ErrOf("lost") ELSE after.err)
      [] fault = "lostBefore" -> Res(before, ErrOf("lost"))
      [] OTHER -> after

\* os.Remove
fsRemove_skips(f, p) == Res(f, NilErr)
fsRemove(f, p) ==
    IF ~Exists(f, p) THEN Res(f, ErrOf("notexist"))
    ELSE IF HasChildren(f, p) THEN Res(f, ErrOf("notempty"))
    ELSE Res([f EXCEPT ![p] = NoEnt], NilErr)

\* os.RemoveAll
fsRemoveAll(f, p) ==
    Res([q \in AllPaths |-> IF q = p \/ Below(p, q) THEN NoEnt ELSE f[q]], NilErr)

\* os.Create: O_CREATE|O_TRUNC; an existing file keeps its inode.
fsCreate(f, g, p) ==
    IF ~ParentOk(f, p) THEN Res(f, ErrOf("notexist"))
    ELSE IF ~Exists(f, p)
    THEN Res([f EXCEPT ![p] = [kind |-> "file", ino |-> FreshIno(f, g), nlink |-> 0,
                               size |-> 0, mode |-> 420, mtime |-> Now, tgt |-> 0]],
             NilErr)
    ELSE IF f[p].kind # "file" THEN Res(f, ErrOf("isdir"))
    ELSE IF ~HasOwnerWrite(f[p].mode) THEN Res(f, ErrOf("perm"))
    ELSE Res(SetAttr(f, f[p].ino, [f[p] EXCEPT !.size = 0, !.mtime = Now]), NilErr)

\* os.Link
fsLink(f, old, new) ==
    IF ~Exists(f, old) THEN Res(f, ErrOf("notexist"))
    ELSE IF IsDir(f[old]) THEN Res(f, ErrOf("perm"))
    ELSE IF ~ParentOk(f, new) THEN Res(f, ErrOf("notexist"))
    ELSE IF Exists(f, new) THEN Res(f, ErrOf("exist"))
    ELSE Res([f EXCEPT ![new] = f[old]], NilErr)

\* os.Symlink
fsSymlink(f, g, target, new) ==
    IF ~ParentOk(f, new) THEN Res(f, ErrOf("notexist"))
    ELSE IF Exists(f, new) THEN Res(f, ErrOf("exist"))
    ELSE Res([f EXCEPT ![new] = [kind |-> "symlink", ino |-> FreshIno(f, g), nlink |-> 0,
                                 size |-> 1, mode |-> 511, mtime |-> Now,
                                 tgt |-> target]],
             NilErr)

\* Local.Mkdir and SFTPFileSystem.Mkdir
fsMkdir(f, g, p, mode) ==
    IF ~ParentOk(f, p) THEN Res(f, ErrOf("notexist"))
    ELSE IF Exists(f, p) THEN Res(f, ErrOf("exist"))
    ELSE Res([f EXCEPT ![p] = [kind |-> "dir", ino |-> FreshIno(f, g), nlink |-> 0,
                               size |-> 0, mode |-> mode, mtime |-> Now, tgt |-> 0]],
             NilErr)

\* os.Chmod
fsChmod(f, p, mode) ==
    IF ~Exists(f, p) THEN Res(f, ErrOf("notexist"))
    ELSE Res(SetAttr(f, f[p].ino, [f[p] EXCEPT !.mode = mode]), NilErr)

\* os.Chtimes
fsChtimes(f, p, mtime) ==
    IF ~Exists(f, p) THEN Res(f, ErrOf("notexist"))
    ELSE Res(SetAttr(f, f[p].ino, [f[p] EXCEPT !.mtime = mtime]), NilErr)

\* FileWriter.Chmod, io.Copy, FileWriter.Chown and Close on the created file.
fsWrite(f, p, mode, size) ==
    Res(SetAttr(f, f[p].ino, [f[p] EXCEPT !.mode = mode, !.size = size,
                                             !.mtime = Now]),
        NilErr)

(***************************************************************************)
(* The destination as Upload sees it: a plain tree (Local, SFTP), or a COW *)
(* that reads the previous snapshot (rroot, prev) and writes a new one     *)
(* (wroot, dest).                                                          *)
(***************************************************************************)
DestRead == IF cow THEN prev ELSE dest

destRemove(d, p) == IF cow THEN Res(d, NilErr) ELSE fsRemove(d, p)
destRemoveAll(d, p) == IF cow THEN Res(d, NilErr) ELSE fsRemoveAll(d, p)

\* COW.Keep: hardlink from the previous snapshot; a directory cannot be
\* hardlinked and is made anew.
cowKeep(d, p) ==
    IF ~Exists(prev, p) THEN Res(d, ErrOf("notexist"))
    ELSE IF IsDir(prev[p]) THEN fsMkdir(d, prev, p, OrOwnerWrite(prev[p].mode))
    ELSE IF ~ParentOk(d, p) THEN Res(d, ErrOf("notexist"))
    ELSE IF Exists(d, p) THEN Res(d, ErrOf("exist"))
    ELSE Res([d EXCEPT ![p] = prev[p]], NilErr)
destKeep(d, p) == IF cow THEN cowKeep(d, p) ELSE Res(d, NilErr)

(***************************************************************************)
(* remote.IsRetriable                                                      *)
(***************************************************************************)
IsRetriable(e) == e.kind = "lost"

(***************************************************************************)
(* linkSet.  inodes maps the inodes on record to [path, uploaded, nlink].  *)
(***************************************************************************)
lsPut(m, i, r) == [j \in DOMAIN m \cup {i} |-> IF j = i THEN r ELSE m[j]]
lsDel(m, i) == [j \in DOMAIN m \ {i} |-> m[j]]

decrementLink_keeps(m, i) == [m EXCEPT ![i].nlink = @ - 1]
decrementLink(m, i) ==
    IF m[i].nlink - 1 = 0 THEN lsDel(m, i) ELSE [m EXCEPT ![i].nlink = @ - 1]

\* Fulfill, for an inode on record.
Fulfill(m, i) == decrementLink([m EXCEPT ![i].uploaded = TRUE], i)

\* Discard, for an inode on record.
Discard_keeps_path(m, i, path) == decrementLink(m, i)
Discard(m, i, path) ==
    decrementLink(IF m[i].path = path THEN [m EXCEPT ![i].path = RootPath] ELSE m, i)

\* offerLocked: the inode returned, and the map after it.
offer_inode(e) ==
    IF e.kind = "none" \/ IsDir(e) \/ e.nlink < 2 THEN 0 ELSE e.ino
offer_map(m, e) ==
    IF offer_inode(e) # 0 /\ e.ino \notin DOMAIN m
    THEN lsPut(m, e.ino, [path |-> RootPath, uploaded |-> FALSE, nlink |-> e.nlink])
    ELSE m

\* sync.Cond.Broadcast of the linkSet.
LsBroadcast(p) == [w \in Workers |-> IF p[w] = "ffwait" THEN "ffwoken" ELSE p[w]]

(***************************************************************************)
(* filePair and process.listDir                                            *)
(***************************************************************************)
NoPair == [path |-> RootPath, src |-> NoEnt, dest |-> NoEnt]
FileInfo(fp) == IF fp.src.kind # "none" THEN fp.src ELSE fp.dest

(***************************************************************************)
(* filePair.FileOperation                                                  *)
(***************************************************************************)
Abs(x) == IF x < 0 THEN 0 - x ELSE x

fileNeedsTransfer_exclusive(d, s) ==
    \/ d.kind = "none"
    \/ d.size # s.size
    \/ MaskMode(d.mode) # MaskMode(s.mode)
    \/ Abs(d.mtime - s.mtime) >= Second
fileNeedsTransfer(d, s) ==
    \/ d.kind = "none"
    \/ d.size # s.size
    \/ MaskMode(d.mode) # MaskMode(s.mode)
    \/ Abs(d.mtime - s.mtime) > Second

directoryNeedsTransfer_strict(d, s) ==
    d.kind = "none" \/ MaskMode(d.mode) # MaskMode(s.mode)
directoryNeedsTransfer(d, s) ==
    \/ d.kind = "none"
    \/ ClearOwnerWrite(MaskMode(d.mode)) # ClearOwnerWrite(MaskMode(s.mode))

\* The FileOperation runes.
UnknownFileOperation == "?"
Create == "C"
Remove == "R"
Keep == "K"
Update == "U"

\* glog.Fatalf ends the program.
FatalOperation == "fatal"

FileOperation(fp) ==
    IF fp.src.kind # "none" /\ fp.dest.kind # "none"
    THEN IF IsDir(fp.src)
         THEN IF directoryNeedsTransfer(fp.dest, fp.src) THEN Update ELSE Keep
         ELSE IF fileNeedsTransfer(fp.dest, fp.src) THEN Update ELSE Keep
    ELSE IF fp.src.kind # "none" THEN Create
    ELSE IF fp.dest.kind # "none" THEN Remove
    ELSE FatalOperation

\* readdir: the names in directory dir of f, in the order the backend lists
\* them (here: descending); "not found" when there is nothing at dir, "not a
\* directory" when dir is a file or a symlink.
readdir_names(f, dir) ==
    SelectSeq(<<3, 2, 1>>, LAMBDA n : Resolve(dir, n) \in AllPaths
                                      /\ Exists(f, Resolve(dir, n)))
readdir_err(f, dir) ==
    IF dir = RootPath \/ IsDir(f[dir]) THEN NilErr
    ELSE IF Exists(f, dir) THEN ErrOf("notdir") ELSE ErrOf("notexist")

\* sort.Slice by Name.
RECURSIVE InsertName(_, _)
InsertName(s, n) ==
    IF Len(s) = 0 THEN <<n>>
    ELSE IF n < Head(s) THEN <<n>> \o s
    ELSE <<Head(s)>> \o InsertName(Tail(s), n)
RECURSIVE SortNames(_)
SortNames(s) == IF Len(s) = 0 THEN <<>> ELSE InsertName(SortNames(Tail(s)), Head(s))

\* The listing of dir on the destination: a directory that is not found
\* lists as empty.
destfiles(fdst, dir) ==
    IF readdir_err(fdst, dir) = NilErr THEN SortNames(readdir_names(fdst, dir)) ELSE <<>>
srcfiles_unsorted(fsrc, dir) == readdir_names(fsrc, dir)
srcfiles(fsrc, dir) == SortNames(readdir_names(fsrc, dir))

\* The error of listDir's errgroup: that of the source listing, or that of
\* the destination listing unless it is "not found".
listDir_err(fsrc, fdst, dir) ==
    IF readdir_err(fsrc, dir) # NilErr THEN readdir_err(fsrc, dir)
    ELSE IF readdir_err(fdst, dir) \notin {NilErr, ErrOf("notexist")}
    THEN readdir_err(fdst, dir)
    ELSE NilErr

\* The join of the two sorted listings sf and df of dir.
RECURSIVE JoinFrom(_, _, _, _, _)
JoinFrom(fsrc, fdst, dir, sf, df) ==
    IF Len(sf) > 0 /\ Len(df) > 0
    THEN IF Head(sf) < Head(df)
         THEN <<[path |-> Resolve(dir, Head(sf)), src |-> fsrc[Resolve(dir, Head(sf))],
                 dest |-> NoEnt]>>
              \o JoinFrom(fsrc, fdst, dir, Tail(sf), df)
         ELSE IF Head(sf) > Head(df)
         THEN <<[path |-> Resolve(dir, Head(df)), src |-> NoEnt,
                 dest |-> fdst[Resolve(dir, Head(df))]]>>
              \o JoinFrom(fsrc, fdst, dir, sf, Tail(df))
         ELSE <<[path |-> Resolve(dir, Head(sf)), src |-> fsrc[Resolve(dir, Head(sf))],
                 dest |-> fdst[Resolve(dir, Head(df))]]>>
              \o JoinFrom(fsrc, fdst, dir, Tail(sf), Tail(df))
    ELSE [i \in 1..Len(sf) |->
             [path |-> Resolve(dir, sf[i]), src |-> fsrc[Resolve(dir, sf[i])],
              dest |-> NoEnt]]
         \o [j \in 1..Len(df) |->
             [path |-> Resolve(dir, df[j]), src |-> NoEnt,
              dest |-> fdst[Resolve(dir, df[j])]]]
Joined(fsrc, fdst, dir) ==
    JoinFrom(fsrc, fdst, dir, srcfiles(fsrc, dir), destfiles(fdst, dir))

\* The order of the final sort.Slice: directories first, then by path.
RECURSIVE PathLess(_, _)
PathLess(p, q) ==
    IF Len(p) = 0 THEN Len(q) > 0
    ELSE IF Len(q) = 0 THEN FALSE
    ELSE IF Head(p) # Head(q) THEN Head(p) < Head(q)
    ELSE PathLess(Tail(p), Tail(q))
PairLess_bypath(a, b) == PathLess(a.path, b.path)
PairLess(a, b) ==
    IF IsDir(FileInfo(a)) # IsDir(FileInfo(b)) THEN IsDir(FileInfo(a))
    ELSE PathLess(a.path, b.path)
RECURSIVE InsertPair(_, _)
InsertPair(s, fp) ==
    IF Len(s) = 0 THEN <<fp>>
    ELSE IF PairLess(fp, Head(s)) THEN <<fp>> \o s
    ELSE <<Head(s)>> \o InsertPair(Tail(s), fp)
RECURSIVE SortPairs(_)
SortPairs(s) == IF Len(s) = 0 THEN <<>> ELSE InsertPair(SortPairs(Tail(s)), Head(s))

listDir(fsrc, fdst, dir) == SortPairs(Joined(fsrc, fdst, dir))

(***************************************************************************)
(* Upload: needsTransfer and the transfer functions.  Each returns the     *)
(* destination after it, its error and the statistics after it.  flt names *)
(* the backend call of the attempt that meets a lost connection, if any.   *)
(***************************************************************************)
ZeroStats == [UploadedFiles |-> 0, UploadedBytes |-> 0, KeptFiles |-> 0,
              KeptBytes |-> 0, KeptDirectories |-> 0, RemovedFiles |-> 0,
              RemovedDirectories |-> 0, CreatedDirectories |-> 0,
              UpdatedDirectories |-> 0, IgnoredFiles |-> 0,
              IgnoredDirectories |-> 0, DiscardedFiles |-> 0,
              InProgress |-> 0, TransferRetries |-> 0]

\* The error value the file hook is given when a transfer begins.
InProgress == [kind |-> "inprogress", at |-> 0]

\* A worker's transfer: the inode and first path FinishedFile returned to
\* the attempt; the back-offs Idempotent has completed (tries), the calls of
\* its closure (runs), the retriable errors the closure returned (rerrs), the
\* closure's last result (last) and what Idempotent returned (ret); the
\* errors the file hook was called with; the error of the listing that runs
\* beside the transfer; TransferRetries as it was when the transfer began.
NoAtt == [inode |-> 0, first |-> RootPath, tries |-> 0, runs |-> 0, rerrs |-> 0,
          last |-> Running, ret |-> Running, hook |-> <<>>, lerr |-> NilErr,
          base |-> 0]

NoFault == [op |-> "none", kind |-> "ok", cleanup |-> TRUE]
FaultOps == {"remove", "removeall", "keep", "mkdir", "chmod", "link", "symlink",
             "create", "write", "chtimes"}
Faults == {f \in [op : FaultOps, kind : {"lostBefore", "lostAfter"}, cleanup : BOOLEAN] :
              ~f.cleanup => f.op \in {"write", "chtimes"}}
At(flt, op) == IF flt.op = op THEN flt.kind ELSE "ok"

Out(f, e, st) == [fs |-> f, err |-> e, stats |-> st]

needsTransfer(d, s) ==
    IF IsDir(d)
    THEN ClearOwnerWrite(MaskMode(d.mode)) # ClearOwnerWrite(MaskMode(s.mode))
    ELSE \/ d.size # s.size
         \/ MaskMode(d.mode) # MaskMode(s.mode)
         \/ Truncate(d.mtime) # Truncate(s.mtime)

\* The Remove the engine issues after a failed call; while the connection
\* is lost it may not be carried out.
Cleanup(d, p, e, flt) ==
    IF e.kind = "lost" /\ ~flt.cleanup THEN d ELSE destRemove(d, p).fs

makeDirectory(fp, d, st, flt) ==
    IF fp.dest.kind = "none"
    THEN LET r == Faulty(At(flt, "mkdir"), d,
                         fsMkdir(d, prev, fp.path, OrOwnerWrite(MaskMode(fp.src.mode))))
         IN Out(r.fs, r.err, [st EXCEPT !.CreatedDirectories = @ + 1])
    ELSE LET r == Faulty(At(flt, "chmod"), d,
                         fsChmod(d, fp.path, OrOwnerWrite(MaskMode(fp.src.mode))))
         IN IF r.err # NilErr THEN Out(r.fs, r.err, st)
            ELSE Out(r.fs, NilErr, [st EXCEPT !.UpdatedDirectories = @ + 1])

transferDirectory(fp, d, st, flt) ==
    IF fp.src.kind = "none"
    THEN LET r == Faulty(At(flt, "removeall"), d, destRemoveAll(d, fp.path))
         IN Out(r.fs, r.err, [st EXCEPT !.RemovedDirectories = @ + 1])
    ELSE IF fp.dest.kind # "none" /\ ~needsTransfer(fp.dest, fp.src)
    THEN LET k == Faulty(At(flt, "keep"), d, destKeep(d, fp.path))
         IN IF k.err = NilErr
            THEN Out(k.fs, NilErr, [st EXCEPT !.KeptDirectories = @ + 1])
            ELSE makeDirectory(fp, k.fs, st, flt)
    ELSE makeDirectory(fp, d, st, flt)

createSymlink(fp, d, st, flt) ==
    LET r == Faulty(At(flt, "symlink"), d, fsSymlink(d, prev, fp.src.tgt, fp.path))
    IN Out(r.fs, r.err, [st EXCEPT !.UploadedBytes = @ + fp.src.size,
                                   !.UploadedFiles = @ + 1])

copyFile(fp, d, st, flt) ==
    LET p == fp.path
        c1 == Faulty(At(flt, "create"), d, fsCreate(d, prev, p))
        d2 == destRemove(c1.fs, p).fs
        c == IF c1.err.kind = "perm"
             THEN Faulty(At(flt, "create"), d2, fsCreate(d2, prev, p))
             ELSE c1
        w == Faulty(At(flt, "write"), c.fs,
                    fsWrite(c.fs, p, MaskMode(fp.src.mode), fp.src.size))
        t == Faulty(At(flt, "chtimes"), w.fs, fsChtimes(w.fs, p, fp.src.mtime))
    IN IF c.err # NilErr THEN Out(c.fs, c.err, st)
       ELSE IF w.err # NilErr THEN Out(Cleanup(w.fs, p, w.err, flt), w.err, st)
       ELSE IF t.err # NilErr THEN Out(Cleanup(t.fs, p, t.err, flt), t.err, st)
       ELSE Out(t.fs, NilErr, [st EXCEPT !.UploadedBytes = @ + fp.src.size,
                                         !.UploadedFiles = @ + 1])

\* transferFile for a removed file.
removeFile(fp, d, st, flt) ==
    LET r == Faulty(At(flt, "remove"), d, destRemove(d, fp.path))
    IN Out(r.fs, r.err, [st EXCEPT !.RemovedFiles = @ + 1])

\* transferFile for a file whose inode is finished at firstPath.
linkFile(fp, firstPath, d, st, flt) ==
    LET r == Faulty(At(flt, "link"), d, fsLink(d, firstPath, fp.path))
    IN Out(r.fs, r.err, [st EXCEPT !.UploadedFiles = @ + 1])

\* transferFile from the needsTransfer test on.
materialize(fp, d, st, flt) ==
    LET k == Faulty(At(flt, "keep"), d, destKeep(d, fp.path))
        kept == fp.dest.kind # "none" /\ ~needsTransfer(fp.dest, fp.src)
        d1 == IF kept THEN k.fs ELSE d
    IN IF kept /\ k.err = NilErr
       THEN Out(k.fs, NilErr, [st EXCEPT !.KeptBytes = @ + fp.dest.size,
                                         !.KeptFiles = @ + 1])
       ELSE IF IsSymlink(fp.src) THEN createSymlink(fp, d1, st, flt)
       ELSE copyFile(fp, d1, st, flt)

(***************************************************************************)
(* The traversal function of the tests of filePairPDFS: it returns the     *)
(* children of the pair, or an error.                                      *)
(***************************************************************************)
FunOk(w) ==
    /\ pc[w] = "fn"
    /\ calls' = [calls EXCEPT ![cur[w]] = @ + 1]
    /\ kids' = [kids EXCEPT ![w] = Children(cur[w])]
    /\ pc' = [pc EXCEPT ![w] = "give"]
    /\ UNCHANGED <<stack, nact, failed, cur, werr, watcherDone, ctxDone,
                   cctxDone, egErr, result, argVars, unitVars, errs, firstFail,
                   cancelLive,
                   fsVars, upVars>>

FunErr(w) ==
    /\ pc[w] = "fn"
    /\ calls' = [calls EXCEPT ![cur[w]] = @ + 1]
    /\ errs' = errs \cup {cur[w]}
    /\ werr' = [werr EXCEPT ![w] = FnErr(cur[w])]
    /\ pc' = [pc EXCEPT ![w] = "fail"]
    /\ UNCHANGED <<stack, nact, failed, cur, kids, watcherDone, ctxDone,
                   cctxDone, egErr, result, argVars, unitVars, firstFail, cancelLive,
                   fsVars, upVars>>

(***************************************************************************)
(* The traversal on its own.                                               *)
(***************************************************************************)
\* The parts exercised on their own, at rest.
MaxHosts == 2
Hosts == 1..MaxHosts
\* A snapshot <host>/<timestamp>; the empty path.
NoSnap == <<0, 0>>
\* The backend of a COW: the target of each <host>/.latest and of .latest,
\* the <host>/<ts>.complete links, the .new link of each directory (0 is the
\* root of the backend) and the snapshot directories.
EmptyStore == [hostLatest |-> [h \in Hosts |-> 0], latest |-> NoSnap,
               complete |-> {}, new |-> [d \in 0..MaxHosts |-> NoSnap],
               dirs |-> {}]
MaxCallers == 2
Callers == 1..MaxCallers
\* The writes of a COW: where COW.init is (sync.Once not yet run, the
\* goroutine of initGroup before its first or its second Mkdir, or done), its
\* error, the Mkdir calls issued for <host> and for <host>/<ts>, whether a
\* call reached the backend under wroot before init was done, whether one
\* reached it after init had failed, and each caller's write.
NoWrite == [pc |-> "idle", op |-> "none"]
NoWrites == [init |-> "idle", ierr |-> "nil", nhost |-> 0, nts |-> 0,
             early |-> FALSE, slipped |-> FALSE,
             ops |-> [c \in Callers |-> NoWrite]]
\* No COW has been constructed.
NoCOW == [pos |-> "none", host |-> 0, ts |-> 0, rroot |-> NoSnap,
          wroot |-> NoSnap, made |-> "no", rerr |-> "none", ferr |-> "none",
          step |-> 0, store0 |-> EmptyStore, n |-> 0, wr |-> NoWrites]

\* A Path: whether it starts with a separator, and its components.
EmptyPath == [abs |-> FALSE, comps |-> <<>>]
NoResolve == [p |-> EmptyPath, pp |-> EmptyPath, done |-> FALSE]

\* ReconnectingSFTPClient.client (0 is nil) and .clientErr.
NoClient == [client |-> 0, clientErr |-> NilErr]
\* A call of do: where it is, the client getClient gave it, the error it has,
\* whether it began after Close, and whether its handleError ran after Close.
NoOp == [pc |-> "idle", client |-> 0, err |-> NilErr, afterClose |-> FALSE,
         handledLate |-> FALSE]
NoOps == [c \in Callers |-> NoOp]
\* The calls of the dialer, whether Close was called, whether the dialer or
\* an underlying client was used by a call begun after Close, and the
\* underlying clients that are open.
NoLog == [dials |-> 0, closed |-> FALSE, lateDial |-> FALSE, lateCall |-> FALSE,
          open |-> {}]

InitUnit ==
    /\ pair = NoPair /\ fileOp = UnknownFileOperation
    /\ cowStore = EmptyStore /\ cowInst = NoCOW
    /\ resolveArg = NoResolve /\ resolved = EmptyPath
    /\ rclient = NoClient /\ rops = NoOps /\ rlog = NoLog

InitPDFS ==
    /\ nnodes \in 0..MaxNodes
    /\ parent \in [1..nnodes -> 0..MaxNodes]
    /\ \A n \in 1..nnodes : parent[n] < n
    /\ nconc \in 1..MaxWorkers
    /\ stack = Roots
    /\ nact = 0
    /\ failed = FALSE
    /\ pc = [w \in Workers |-> IF w <= nconc THEN "take" ELSE "none"]
    /\ cur = [w \in Workers |-> 0]
    /\ kids = [w \in Workers |-> <<>>]
    /\ werr = [w \in Workers |-> NilErr]
    /\ watcherDone = FALSE
    /\ ctxDone = FALSE
    /\ cctxDone = FALSE
    /\ egErr = NilErr
    /\ result = Running
    /\ calls = [n \in 1..nnodes |-> 0]
    /\ errs = {}
    /\ firstFail = 0
    /\ cancelLive = FALSE
    /\ src = EmptyFS /\ dest = EmptyFS /\ prev = EmptyFS
    /\ cow = FALSE /\ ignored = {}
    /\ inodes = <<>> /\ stats = ZeroStats
    /\ att = [w \in Workers |-> NoAtt]
    /\ faults = 0 /\ runNo = 1 /\ dest0 = EmptyFS
    /\ InitUnit

WorkerPDFS(w) ==
    \/ Take(w)
    \/ FunOk(w)
    \/ FunErr(w)
    \/ Give(w)
    \/ Fail(w)
    \/ LoopCtxErr(w)
    \/ EgReturn(w)

NextPDFS ==
    \/ \E w \in Workers : WorkerPDFS(w)
    \/ EgWait
    \/ Watcher
    \/ Cancel

SpecPDFS == InitPDFS /\ [][NextPDFS]_vars

\* Every goroutine that can run does run; fun always returns.
FairPDFS ==
    /\ \A w \in Workers : WF_vars(Take(w) \/ Give(w) \/ Fail(w)
                                  \/ LoopCtxErr(w) \/ EgReturn(w))
    /\ \A w \in Workers : WF_vars(FunOk(w) \/ FunErr(w))
    /\ WF_vars(EgWait)
    /\ WF_vars(Watcher)

FairSpecPDFS == SpecPDFS /\ FairPDFS

(***************************************************************************)
(* The retry counter and the file hook of Upload.transfer.                 *)
(***************************************************************************)
\* An attempt begins, n attempts having begun before it.
transfer_retry_always(st, n) == [st EXCEPT !.TransferRetries = @ + 1]
transfer_retry(st, n) ==
    IF n > 0 THEN [st EXCEPT !.TransferRetries = @ + 1] ELSE st

\* The hook calls made when the transfer begins, when an attempt begins and
\* when the transfer ends with error e.
fire_start(h) == Append(h, InProgress)
fire_attempt_each(h, n) == Append(h, InProgress)
fire_attempt(h, n) == h
fire_end(h, e) == Append(h, e)

(***************************************************************************)
(* process.process up to the call of transfer: the ignore filter, and the  *)
(* listing of a source directory.  The listing runs beside the transfer of *)
(* the directory itself, which does not touch the directory's entries.     *)
(***************************************************************************)
\* "/" + fp.path, with "/" appended for a directory: the path and whether it
\* ends in a slash.
filterPath(fp) == <<fp.path, IsDir(FileInfo(fp))>>
process_ignores_never(fp) == FALSE
process_ignores(fp) == filterPath(fp) \in ignored

\* The errors listDir may return for the pair: its own, or that of a lost
\* connection.
ListingErrs(fp) ==
    IF ~IsDir(fp.src) THEN {NilErr}
    ELSE IF listDir_err(src, DestRead, fp.path) # NilErr
    THEN {listDir_err(src, DestRead, fp.path)}
    ELSE IF faults > 0 THEN {NilErr, ErrOf("lost")} ELSE {NilErr}

\* eg.Wait of process: the error it returns when the listing returned lerr
\* and transfer returned terr.
process_err(lerr, terr) ==
    IF lerr = NilErr THEN {terr} ELSE IF terr = NilErr THEN {lerr} ELSE {lerr, terr}

Process(w) ==
    /\ pc[w] = "fn"
    /\ calls' = [calls EXCEPT ![cur[w].path] = @ + 1]
    /\ LET fp == cur[w]
       IN IF process_ignores(fp)
          THEN /\ stats' = IF IsDir(FileInfo(fp))
                           THEN [stats EXCEPT !.IgnoredDirectories = @ + 1]
                           ELSE [stats EXCEPT !.IgnoredFiles = @ + 1]
               /\ kids' = [kids EXCEPT ![w] = <<>>]
               /\ pc' = [pc EXCEPT ![w] = "give"]
               /\ att' = [att EXCEPT ![w] = NoAtt]
               /\ UNCHANGED faults
          ELSE /\ \E le \in ListingErrs(fp) :
                     /\ kids' = [kids EXCEPT ![w] =
                                    IF IsDir(fp.src) /\ le = NilErr
                                    THEN listDir(src, DestRead, fp.path)
                                    ELSE <<>>]
                     /\ att' = [att EXCEPT ![w] =
                                   [NoAtt EXCEPT !.lerr = le,
                                                 !.hook = fire_start(NoAtt.hook),
                                                 !.base = stats.TransferRetries]]
                     /\ faults' = IF le = ErrOf("lost") THEN faults - 1 ELSE faults
               /\ pc' = [pc EXCEPT ![w] = "attempt"]
               /\ stats' = [stats EXCEPT !.InProgress = @ + 1]
    /\ UNCHANGED <<stack, nact, failed, cur, werr, watcherDone, ctxDone,
                   cctxDone, egErr, result, argVars, unitVars, errs, firstFail,
                   cancelLive, fsVars, inodes, runNo, dest0>>

(***************************************************************************)
(* remote.Idempotent around Upload.transfer's closure.                     *)
(***************************************************************************)
\* The lost connections an attempt may meet.
FaultChoices == IF faults > 0 THEN Faults \cup {NoFault} ELSE {NoFault}

\* The deferred decrement of process.
process_defer_skips(st) == st
process_defer(st) == [st EXCEPT !.InProgress = @ - 1]

\* transfer has returned terr and process returns: the hook is called, the
\* deferred decrement of InProgress runs, and loop gives or fails.
ProcessReturns(w, terr, st, pcs, a) ==
    \E e \in process_err(a[w].lerr, terr) :
        /\ stats' = process_defer(st)
        /\ att' = [a EXCEPT ![w].hook = fire_end(@, terr), ![w].ret = terr]
        /\ pc' = [pcs EXCEPT ![w] = IF e = NilErr THEN "give" ELSE "fail"]
        /\ werr' = [werr EXCEPT ![w] = e]

\* Idempotent's test of the closure's error: return it, or back off.
idem_returns_all(e) == TRUE
idem_returns(e) == e = NilErr \/ ~IsRetriable(e)

\* The closure has returned r: the attempt ends, and Idempotent returns nil,
\* backs off, or returns the error.  a holds the workers' transfers.
Conclude(w, r, flt, pcs, a) ==
    /\ flt # NoFault => r.err.kind = "lost"
    /\ dest' = r.fs
    /\ faults' = IF flt = NoFault THEN faults ELSE faults - 1
    /\ IF idem_returns(r.err)
       THEN ProcessReturns(w, r.err, r.stats, pcs, [a EXCEPT ![w].last = r.err])
       ELSE /\ pc' = [pcs EXCEPT ![w] = "backoff"]
            /\ att' = [a EXCEPT ![w].rerrs = @ + 1, ![w].last = r.err]
            /\ stats' = r.stats
            /\ UNCHANGED werr

\* A nil map entry is dereferenced: the program dies.
PanicErr == [kind |-> "panic", at |-> 0]
Panic ==
    /\ result' = PanicErr
    /\ pc' = [w \in Workers |-> "crashed"]

\* linkSet.FinishedFile from its loop on, the inode being on record in m;
\* a holds the workers' transfers.
FinishedLoop_nowait(w, m, ino, a) ==
    IF m[ino].path # RootPath
    THEN /\ att' = [a EXCEPT ![w].inode = ino, ![w].first = m[ino].path]
         /\ inodes' = decrementLink(m, ino)
         /\ pc' = [pc EXCEPT ![w] = "work"]
    ELSE /\ att' = [a EXCEPT ![w].inode = ino, ![w].first = RootPath]
         /\ inodes' = [m EXCEPT ![ino].path = cur[w].path]
         /\ pc' = [pc EXCEPT ![w] = "work"]
FinishedLoop(w, m, ino, a) ==
    IF m[ino].uploaded
    THEN /\ att' = [a EXCEPT ![w].inode = ino, ![w].first = m[ino].path]
         /\ inodes' = decrementLink(m, ino)
         /\ pc' = [pc EXCEPT ![w] = "work"]
    ELSE IF m[ino].path = RootPath
    THEN /\ att' = [a EXCEPT ![w].inode = ino, ![w].first = RootPath]
         /\ inodes' = [m EXCEPT ![ino].path = cur[w].path]
         /\ pc' = [pc EXCEPT ![w] = "work"]
    ELSE /\ att' = [a EXCEPT ![w].inode = ino, ![w].first = RootPath]
         /\ inodes' = m
         /\ pc' = [pc EXCEPT ![w] = "ffwait"]

\* An attempt begins: Idempotent calls the closure.  A directory or a removal
\* is transferred at once; a file first calls linkSet.FinishedFile.
Attempt(w) ==
    /\ pc[w] = "attempt"
    /\ LET fp == cur[w]
           a == [att EXCEPT ![w].runs = @ + 1,
                            ![w].hook = fire_attempt(@, att[w].runs)]
           st == transfer_retry(stats, att[w].runs)
       IN IF IsDir(FileInfo(fp)) \/ fp.src.kind = "none"
          THEN /\ \E flt \in FaultChoices :
                     Conclude(w, IF IsDir(FileInfo(fp))
                                 THEN transferDirectory(fp, dest, st, flt)
                                 ELSE removeFile(fp, dest, st, flt),
                              flt, pc, a)
               /\ UNCHANGED <<inodes, result>>
          ELSE /\ IF offer_inode(fp.src) = 0
                  THEN /\ att' = [a EXCEPT ![w].inode = 0, ![w].first = RootPath]
                       /\ pc' = [pc EXCEPT ![w] = "work"]
                       /\ UNCHANGED inodes
                  ELSE FinishedLoop(w, offer_map(inodes, fp.src), offer_inode(fp.src), a)
               /\ stats' = st
               /\ UNCHANGED <<dest, faults, werr, result>>
    /\ UNCHANGED <<stack, nact, failed, cur, kids, watcherDone, ctxDone,
                   cctxDone, egErr, argVars, unitVars, obsVars, src, prev, cow, ignored,
                   runNo, dest0>>

\* A goroutine woken in FinishedFile evaluates the loop condition again.
FinishedWake(w) ==
    /\ pc[w] = "ffwoken"
    /\ IF att[w].inode \in DOMAIN inodes
       THEN FinishedLoop(w, inodes, att[w].inode, att) /\ UNCHANGED result
       ELSE Panic /\ UNCHANGED <<att, inodes>>
    /\ UNCHANGED <<stack, nact, failed, cur, kids, werr, watcherDone, ctxDone,
                   cctxDone, egErr, argVars, unitVars, obsVars, fsVars, stats, faults,
                   runNo, dest0>>

\* Whether transferFile gets to createSymlink or copyFile, which read the
\* source, and whether the source entry has gone by then.
opens_source(fp, d) ==
    ~(fp.dest.kind # "none" /\ ~needsTransfer(fp.dest, fp.src)
         /\ destKeep(d, fp.path).err = NilErr)
vanished(fp, d) ==
    fp.src.kind # "none" /\ ~Exists(src, fp.path) /\ opens_source(fp, d)

\* createSymlink and copyFile when the source entry is not found: Discard,
\* the DiscardedFiles counter and a nil error.
discardFile(d, st) == Out(d, NilErr, [st EXCEPT !.DiscardedFiles = @ + 1])

\* transferFile after FinishedFile, with its deferred Fulfill.
Work(w) ==
    /\ pc[w] = "work"
    /\ LET fp == cur[w]
           a == att[w]
       IN IF a.inode # 0 /\ a.first # RootPath
          THEN /\ \E flt \in FaultChoices :
                     Conclude(w, linkFile(fp, a.first, dest, stats, flt), flt, pc, att)
               /\ UNCHANGED <<inodes, result>>
          ELSE IF vanished(fp, dest)
          THEN IF a.inode \notin DOMAIN inodes
               THEN /\ Panic
                    /\ UNCHANGED <<inodes, werr, att, dest, stats, faults>>
               ELSE IF a.inode \notin DOMAIN Discard(inodes, a.inode, fp.path)
               THEN /\ Panic
                    /\ inodes' = Discard(inodes, a.inode, fp.path)
                    /\ stats' = discardFile(dest, stats).stats
                    /\ UNCHANGED <<werr, att, dest, faults>>
               ELSE /\ Conclude(w, discardFile(dest, stats), NoFault, LsBroadcast(pc), att)
                    /\ inodes' = Fulfill(Discard(inodes, a.inode, fp.path), a.inode)
                    /\ UNCHANGED result
          ELSE IF a.inode = 0
          THEN /\ \E flt \in FaultChoices :
                     Conclude(w, materialize(fp, dest, stats, flt), flt, pc, att)
               /\ UNCHANGED <<inodes, result>>
          ELSE IF a.inode \in DOMAIN inodes
          THEN /\ \E flt \in FaultChoices :
                     Conclude(w, materialize(fp, dest, stats, flt), flt,
                              LsBroadcast(pc), att)
               /\ inodes' = Fulfill(inodes, a.inode)
               /\ UNCHANGED result
          ELSE /\ \E flt \in FaultChoices :
                     /\ flt # NoFault => materialize(fp, dest, stats, flt).err.kind = "lost"
                     /\ dest' = materialize(fp, dest, stats, flt).fs
                     /\ stats' = materialize(fp, dest, stats, flt).stats
                     /\ faults' = IF flt = NoFault THEN faults ELSE faults - 1
               /\ Panic
               /\ UNCHANGED <<inodes, werr, att>>
    /\ UNCHANGED <<stack, nact, failed, cur, kids, watcherDone, ctxDone,
                   cctxDone, egErr, argVars, unitVars, obsVars, src, prev, cow, ignored,
                   runNo, dest0>>

\* Idempotent's select blocks on ctx.Done() and on a timer of at least
\* 300 ms: the timer completes it only if the context is not done by then.
select_timer_any == TRUE
select_timer == ~cctxDone

\* Idempotent's select: the back-off timer fires and the closure runs again,
BackoffTimer(w) ==
    /\ pc[w] = "backoff"
    /\ select_timer
    /\ pc' = [pc EXCEPT ![w] = "attempt"]
    /\ att' = [att EXCEPT ![w].tries = @ + 1]
    /\ UNCHANGED <<stack, nact, failed, cur, kids, werr, watcherDone, ctxDone,
                   cctxDone, egErr, result, argVars, unitVars, obsVars, fsVars, inodes,
                   stats, faults, runNo, dest0>>

\* or the context is done and Idempotent returns ctx.Err().
BackoffCanceled(w) ==
    /\ pc[w] = "backoff"
    /\ cctxDone
    /\ ProcessReturns(w, Canceled, stats, pc, att)
    /\ UNCHANGED <<stack, nact, failed, cur, kids, watcherDone, ctxDone,
                   cctxDone, egErr, result, argVars, unitVars, obsVars, fsVars, inodes,
                   faults, runNo, dest0>>

(***************************************************************************)
(* The trees Upload is run on.  A source shape says what each path is on   *)
(* the source; a destination shape says how the destination stands to it:  *)
(* absent, as an earlier run left it ("sync"), differing ("stale"), or     *)
(* present where the source has nothing ("extra").                         *)
(***************************************************************************)
\* Largest number of pairs (paths present on either side) of a run.
MaxPairs == 2
\* Largest number of connection losses during a run.
MaxFaults == 1

SrcShapes == [a : {"none", "file", "symlink"}, b : {"none", "file", "hl"},
              d : {"none", "dir"}, da : {"none", "file"}, extra : {0, 1}]
DestShapes == [a : {"none", "sync", "stale", "extra"},
               b : {"none", "sync", "stale", "extra"},
               d : {"none", "sync", "stale", "extra"},
               da : {"none", "sync", "stale", "extra"}]

SrcTime == 2 * Second + 1
OldTime == Second

SrcTree(sh) ==
    [p \in AllPaths |->
        CASE p = <<1>> /\ sh.a = "file" ->
               [kind |-> "file", ino |-> 1,
                nlink |-> IF sh.b = "hl" THEN 2 + sh.extra ELSE 1,
                size |-> 2, mode |-> 420, mtime |-> SrcTime, tgt |-> 0]
          [] p = <<1>> /\ sh.a = "symlink" ->
               [kind |-> "symlink", ino |-> 1, nlink |-> 1, size |-> 1,
                mode |-> 511, mtime |-> SrcTime, tgt |-> 1]
          [] p = <<2>> /\ sh.b = "file" ->
               [kind |-> "file", ino |-> 2, nlink |-> 1, size |-> 2,
                mode |-> 420, mtime |-> SrcTime, tgt |-> 0]
          [] p = <<2>> /\ sh.b = "hl" ->
               [kind |-> "file", ino |-> 1, nlink |-> 2 + sh.extra, size |-> 2,
                mode |-> 420, mtime |-> SrcTime, tgt |-> 0]
          [] p = <<3>> /\ sh.d = "dir" ->
               [kind |-> "dir", ino |-> 3, nlink |-> 1, size |-> 0,
                mode |-> 365, mtime |-> SrcTime, tgt |-> 0]
          [] p = <<3, 1>> /\ sh.da = "file" ->
               [kind |-> "file", ino |-> 4, nlink |-> 1, size |-> 2,
                mode |-> 420, mtime |-> SrcTime, tgt |-> 0]
          [] OTHER -> NoEnt]

\* The destination entry for source entry e in state st; i numbers its inode.
DestEnt(e, st, i) ==
    CASE st = "sync" /\ e.kind = "file" ->
           [e EXCEPT !.ino = i, !.nlink = 0, !.mtime = Truncate(e.mtime)]
      [] st = "sync" /\ e.kind = "symlink" ->
           [e EXCEPT !.ino = i, !.nlink = 0, !.mtime = OldTime]
      [] st = "sync" /\ e.kind = "dir" ->
           [e EXCEPT !.ino = i, !.nlink = 0, !.mode = OrOwnerWrite(e.mode),
                     !.mtime = OldTime]
      [] st = "stale" /\ e.kind = "file" ->
           [e EXCEPT !.ino = i, !.nlink = 0, !.size = 1, !.mode = 292,
                     !.mtime = OldTime]
      [] st = "stale" /\ e.kind = "dir" ->
           [e EXCEPT !.ino = i, !.nlink = 0, !.mode = 448, !.mtime = OldTime]
      [] OTHER -> NoEnt

ExtraFile(i) == [kind |-> "file", ino |-> i, nlink |-> 0, size |-> 1,
                 mode |-> 420, mtime |-> OldTime, tgt |-> 0]
ExtraDir(i) == [kind |-> "dir", ino |-> i, nlink |-> 0, size |-> 0,
                mode |-> 493, mtime |-> OldTime, tgt |-> 0]

DestTree(sh, dsh) ==
    LET s == SrcTree(sh)
    IN [p \in AllPaths |->
           CASE p = <<1>> -> IF dsh.a = "extra" THEN ExtraFile(1)
                             ELSE DestEnt(s[p], dsh.a, 1)
             [] p = <<2>> -> IF dsh.b = "extra" THEN ExtraFile(2)
                             ELSE DestEnt(s[p], dsh.b,
                                          IF sh.b = "hl" /\ dsh.a = "sync" /\ dsh.b = "sync"
                                          THEN 1 ELSE 2)
             [] p = <<3>> -> IF dsh.d = "extra" THEN ExtraDir(3)
                             ELSE DestEnt(s[p], dsh.d, 3)
             [] OTHER -> IF dsh.da = "extra" THEN ExtraFile(4)
                         ELSE DestEnt(s[p], dsh.da, 4)]

\* The shapes that describe trees, with at most MaxPairs pairs.
ShapeOk(sh, dsh) ==
    LET s == SrcTree(sh)
        d == DestTree(sh, dsh)
        Fits(e, st) == IF e.kind = "none" THEN st \in {"none", "extra"}
                       ELSE IF e.kind = "symlink" THEN st \in {"none", "sync"}
                       ELSE st \in {"none", "sync", "stale"}
    IN /\ sh.b = "hl" => sh.a = "file"
       /\ sh.extra = 1 => sh.b = "hl"
       /\ sh.da = "file" => sh.d = "dir"
       /\ Fits(s[<<1>>], dsh.a) /\ Fits(s[<<2>>], dsh.b)
       /\ Fits(s[<<3>>], dsh.d) /\ Fits(s[<<3, 1>>], dsh.da)
       /\ dsh.da # "none" => dsh.d # "none"
       /\ (sh.b # "none" \/ dsh.b # "none") => (sh.a # "none" \/ dsh.a # "none")
       /\ Cardinality({p \in AllPaths : Exists(s, p) \/ Exists(d, p)}) <= MaxPairs

\* Whether the pair at q is a directory.
PairIsDir(q) == IsDir(IF Exists(src, q) THEN src[q] ELSE dest0[q])

\* The filter paths an ignore filter is tried with: that of a pair of the
\* tree, or the path of a directory of the tree without its trailing slash.
Filters ==
    {<<p, PairIsDir(p)>> : p \in {q \in AllPaths : Exists(src, q) \/ Exists(dest0, q)}}
        \cup {<<p, FALSE>> : p \in {q \in AllPaths : IsDir(src[q])}}

StartPcs == [w \in Workers |-> IF w <= nconc THEN "take" ELSE "none"]

\* A new Upload on a source and a destination of at most MaxPairs pairs; an
\* ignore filter of one filter path is tried with plain destinations.
InitRun ==
    /\ cow \in BOOLEAN
    /\ dest = IF cow THEN EmptyFS ELSE dest0
    /\ prev = IF cow THEN dest0 ELSE EmptyFS
    /\ ignored \in {{}} \cup {{f} : f \in IF cow THEN {} ELSE Filters}
    /\ nconc \in 1..MaxWorkers
    /\ nnodes = 0 /\ parent = <<>>
    /\ stack = listDir(src, DestRead, RootPath)
    /\ nact = 0 /\ failed = FALSE
    /\ pc = StartPcs
    /\ cur = [w \in Workers |-> NoPair]
    /\ kids = [w \in Workers |-> <<>>]
    /\ werr = [w \in Workers |-> NilErr]
    /\ watcherDone = FALSE /\ ctxDone = FALSE /\ cctxDone = FALSE
    /\ egErr = NilErr /\ result = Running
    /\ calls = [p \in AllPaths |-> 0]
    /\ errs = {} /\ firstFail = 0 /\ cancelLive = FALSE
    /\ inodes = <<>> /\ stats = ZeroStats
    /\ att = [w \in Workers |-> NoAtt]
    /\ faults = MaxFaults /\ runNo = 1
    /\ InitUnit

InitUpload ==
    /\ \E sh \in SrcShapes, dsh \in DestShapes :
          /\ ShapeOk(sh, dsh)
          /\ src = SrcTree(sh)
          /\ dest0 = DestTree(sh, dsh)
    /\ InitRun

\* A first run has succeeded; a new Upload is run on the same source and
\* destination (a COW destination is finished, and a new snapshot begun).
\* The second run is followed for uploads without an ignore filter.
StartSecondRun ==
    /\ runNo = 1 /\ result = NilErr /\ ignored = {}
    /\ runNo' = 2
    /\ prev' = IF cow THEN dest ELSE prev
    /\ dest' = IF cow THEN EmptyFS ELSE dest
    /\ stack' = listDir(src, dest, RootPath)
    /\ nact' = 0 /\ failed' = FALSE
    /\ pc' = StartPcs
    /\ cur' = [w \in Workers |-> NoPair]
    /\ kids' = [w \in Workers |-> <<>>]
    /\ werr' = [w \in Workers |-> NilErr]
    /\ watcherDone' = FALSE /\ cctxDone' = FALSE
    /\ egErr' = NilErr /\ result' = Running
    /\ inodes' = <<>> /\ stats' = ZeroStats
    /\ att' = [w \in Workers |-> NoAtt]
    /\ faults' = 0
    /\ calls' = [p \in AllPaths |-> 0]
    /\ UNCHANGED <<ctxDone, argVars, unitVars, errs, firstFail, cancelLive, src, cow,
                   ignored, dest0>>

\* The watcher goroutine dies with the program.
WatcherUpload == result # PanicErr /\ Watcher

WorkerUpload(w) ==
    \/ Take(w)
    \/ Process(w)
    \/ Attempt(w)
    \/ FinishedWake(w)
    \/ Work(w)
    \/ BackoffTimer(w)
    \/ BackoffCanceled(w)
    \/ Give(w)
    \/ Fail(w)
    \/ LoopCtxErr(w)
    \/ EgReturn(w)

NextUpload ==
    \/ \E w \in Workers : WorkerUpload(w)
    \/ EgWait
    \/ WatcherUpload
    \/ StartSecondRun

SpecUpload == InitUpload /\ [][NextUpload]_vars

\* One run on a plain destination without an ignore filter, with a caller
\* that may cancel the context of Run.
InitUploadCancel == InitUpload /\ ~cow /\ ignored = {}
NextUploadCancel ==
    \/ \E w \in Workers : WorkerUpload(w)
    \/ EgWait
    \/ WatcherUpload
    \/ Cancel
SpecUploadCancel == InitUploadCancel /\ [][NextUploadCancel]_vars

\* One run on a plain destination without an ignore filter, during which
\* files and symlinks of the source may be removed once they are listed.
Listed(p) ==
    \/ \E i \in 1..Len(stack) : stack[i].path = p
    \/ \E w \in Spawned : /\ cur[w].path = p
                           /\ pc[w] \in {"fn", "attempt", "ffwait", "ffwoken", "work"}
SrcVanish ==
    /\ result = Running
    /\ \E p \in AllPaths :
          /\ Exists(src, p) /\ ~IsDir(src[p])
          /\ Listed(p)
          /\ src' = [src EXCEPT ![p] = NoEnt]
    /\ UNCHANGED <<pdfsVars, argVars, unitVars, obsVars, dest, prev, cow, ignored,
                   upVars>>

InitUploadVanish == InitUpload /\ ~cow /\ ignored = {}
NextUploadVanish ==
    \/ \E w \in Workers : WorkerUpload(w)
    \/ EgWait
    \/ WatcherUpload
    \/ SrcVanish
SpecUploadVanish == InitUploadVanish /\ [][NextUploadVanish]_vars

\* Runs on a destination whose directories in step with the source were
\* not made by Upload: they carry the mode of the source directory as it
\* is, as a plain copy of the tree leaves them.
AsCopied(s, d) ==
    [p \in AllPaths |->
        IF IsDir(s[p]) /\ IsDir(d[p]) /\ ~needsTransfer(d[p], s[p])
        THEN [d[p] EXCEPT !.mode = s[p].mode]
        ELSE d[p]]
InitUploadCopied ==
    /\ \E sh \in SrcShapes, dsh \in DestShapes :
          /\ ShapeOk(sh, dsh)
          /\ src = SrcTree(sh)
          /\ dest0 = AsCopied(SrcTree(sh), DestTree(sh, dsh))
    /\ InitRun
SpecUploadCopied == InitUploadCopied /\ [][NextUpload]_vars

(***************************************************************************)
(* The linkSet on its own, used as in its example: callers bring the       *)
(* names of one source inode; whoever FinishedFile returns "" to transfers *)
(* the file and calls Fulfill, or Discard when the transfer failed; the    *)
(* others hardlink to the path they are given.  errs holds the paths that  *)
(* were discarded.                                                         *)
(***************************************************************************)
\* The names of the inode.
LsNames == <<<<1>>, <<2>>, <<3, 1>>>>
LsPaths(k) == {LsNames[i] : i \in 1..k}

\* A source tree with k names of inode 1, whose link count is nl.
LsTree(k, nl) ==
    [p \in AllPaths |->
        IF p \in LsPaths(k)
        THEN [kind |-> "file", ino |-> 1, nlink |-> nl, size |-> 2, mode |-> 420,
              mtime |-> SrcTime, tgt |-> 0]
        ELSE IF p = <<3>> /\ k = 3
        THEN [kind |-> "dir", ino |-> 3, nlink |-> 1, size |-> 0, mode |-> 365,
              mtime |-> SrcTime, tgt |-> 0]
        ELSE NoEnt]

InitLinkSet ==
    /\ \E k \in 2..3, nl \in 2..3 :
          /\ k <= nl
          /\ src = LsTree(k, nl)
          /\ stack = [i \in 1..k |-> [path |-> LsNames[i], src |-> src[LsNames[i]],
                                      dest |-> NoEnt]]
    /\ dest0 = [p \in AllPaths |-> IF IsDir(src[p]) THEN DestEnt(src[p], "sync", 3)
                                   ELSE NoEnt]
    /\ dest = dest0 /\ prev = EmptyFS
    /\ cow = FALSE /\ ignored = {}
    /\ nconc \in 2..MaxWorkers
    /\ nnodes = 0 /\ parent = <<>>
    /\ nact = 0 /\ failed = FALSE
    /\ pc = StartPcs
    /\ cur = [w \in Workers |-> NoPair]
    /\ kids = [w \in Workers |-> <<>>]
    /\ werr = [w \in Workers |-> NilErr]
    /\ watcherDone = FALSE /\ ctxDone = FALSE /\ cctxDone = FALSE
    /\ egErr = NilErr /\ result = Running
    /\ calls = [p \in AllPaths |-> 0]
    /\ errs = {} /\ firstFail = 0 /\ cancelLive = FALSE
    /\ inodes = <<>> /\ stats = ZeroStats
    /\ att = [w \in Workers |-> NoAtt]
    /\ faults = 0 /\ runNo = 1
    /\ InitUnit

\* A caller arrives with a name of the inode that no caller has brought.
LsArrive(w) ==
    /\ pc[w] = "take"
    /\ \E i \in 1..Len(stack) :
          /\ cur' = [cur EXCEPT ![w] = stack[i]]
          /\ stack' = [j \in 1..(Len(stack) - 1) |-> IF j < i THEN stack[j]
                                                    ELSE stack[j + 1]]
          /\ calls' = [calls EXCEPT ![stack[i].path] = @ + 1]
    /\ pc' = [pc EXCEPT ![w] = "attempt"]
    /\ att' = [att EXCEPT ![w] = NoAtt]
    /\ UNCHANGED <<nact, failed, kids, werr, watcherDone, ctxDone, cctxDone,
                   egErr, result, argVars, unitVars, errs, firstFail, cancelLive, fsVars,
                   inodes, stats, faults, runNo, dest0>>

\* The caller calls FinishedFile(path, src).
LsFinishedFile(w) ==
    /\ pc[w] = "attempt"
    /\ FinishedLoop(w, offer_map(inodes, cur[w].src), offer_inode(cur[w].src), att)
    /\ UNCHANGED <<stack, nact, failed, cur, kids, werr, watcherDone, ctxDone,
                   cctxDone, egErr, result, argVars, unitVars, obsVars, fsVars, stats,
                   faults, runNo, dest0>>

\* The caller that was given "" transfers the file, or fails to.
LsTransfer(w) ==
    /\ pc[w] = "work" /\ att[w].first = RootPath
    /\ \/ /\ dest' = materialize(cur[w], dest, stats, NoFault).fs
          /\ pc' = [pc EXCEPT ![w] = "fulfill"]
          /\ UNCHANGED errs
       \/ /\ errs' = errs \cup {cur[w].path}
          /\ pc' = [pc EXCEPT ![w] = "discard"]
          /\ UNCHANGED dest
    /\ UNCHANGED <<stack, nact, failed, cur, kids, werr, watcherDone, ctxDone,
                   cctxDone, egErr, result, argVars, unitVars, calls, firstFail,
                   cancelLive, src, prev, cow, ignored, upVars>>

\* ls.Fulfill(inode) after the transfer.
LsFulfill(w) ==
    /\ pc[w] = "fulfill"
    /\ inodes' = Fulfill(inodes, att[w].inode)
    /\ pc' = LsBroadcast([pc EXCEPT ![w] = "take"])
    /\ UNCHANGED <<stack, nact, failed, cur, kids, werr, watcherDone, ctxDone,
                   cctxDone, egErr, result, argVars, unitVars, obsVars, fsVars, stats,
                   att, faults, runNo, dest0>>

\* ls.Discard(inode, destPath) after the failed transfer.
LsDiscard(w) ==
    /\ pc[w] = "discard"
    /\ inodes' = Discard(inodes, att[w].inode, cur[w].path)
    /\ pc' = LsBroadcast([pc EXCEPT ![w] = "take"])
    /\ UNCHANGED <<stack, nact, failed, cur, kids, werr, watcherDone, ctxDone,
                   cctxDone, egErr, result, argVars, unitVars, obsVars, fsVars, stats,
                   att, faults, runNo, dest0>>

\* The caller that was given a path hardlinks to it.
LsLink(w) ==
    /\ pc[w] = "work" /\ att[w].first # RootPath
    /\ dest' = linkFile(cur[w], att[w].first, dest, stats, NoFault).fs
    /\ werr' = [werr EXCEPT ![w] = linkFile(cur[w], att[w].first, dest, stats, NoFault).err]
    /\ pc' = [pc EXCEPT ![w] = "take"]
    /\ UNCHANGED <<stack, nact, failed, cur, kids, watcherDone, ctxDone,
                   cctxDone, egErr, result, argVars, unitVars, obsVars, src, prev, cow,
                   ignored, upVars>>

NextLinkSet ==
    \E w \in Workers :
        \/ LsArrive(w)
        \/ LsFinishedFile(w)
        \/ FinishedWake(w)
        \/ LsTransfer(w)
        \/ LsFulfill(w)
        \/ LsDiscard(w)
        \/ LsLink(w)

SpecLinkSet == InitLinkSet /\ [][NextLinkSet]_vars

(***************************************************************************)
(* One pair on its own: FileOperation classifies it and the closure of     *)
(* Upload.transfer transfers it, on a plain destination that holds the     *)
(* pair's destination entry.                                               *)
(***************************************************************************)
\* The mtimes tried for the destination entry: up to a tick more than a
\* second on either side of the source's.
PairTimes == (SrcTime - Second - 1)..(SrcTime + Second + 1)

\* The entries at the pair's path on the source and on the destination.
PairSrcEnts ==
    {NoEnt} \cup
    [kind : {"file", "dir"}, ino : {1}, nlink : {1}, size : {1, 2},
     mode : {420, 292}, mtime : {SrcTime}, tgt : {0}] \cup
    [kind : {"symlink"}, ino : {1}, nlink : {1}, size : {1},
     mode : {511}, mtime : {SrcTime}, tgt : {1}]
PairDestEnts ==
    {NoEnt} \cup
    [kind : {"file", "dir"}, ino : {1}, nlink : {0}, size : {1, 2},
     mode : {420, 292, 416}, mtime : PairTimes, tgt : {0}] \cup
    [kind : {"symlink"}, ino : {1}, nlink : {0}, size : {1},
     mode : {511}, mtime : PairTimes, tgt : {1, 2}]

PairPath == <<1>>

InitFilePair ==
    /\ pair \in [path : {PairPath}, src : PairSrcEnts, dest : PairDestEnts]
    /\ pair.src # NoEnt \/ pair.dest # NoEnt
    /\ fileOp = UnknownFileOperation
    /\ cowStore = EmptyStore /\ cowInst = NoCOW
    /\ resolveArg = NoResolve /\ resolved = EmptyPath
    /\ rclient = NoClient /\ rops = NoOps /\ rlog = NoLog
    /\ src = [EmptyFS EXCEPT ![PairPath] = pair.src]
    /\ dest0 = [EmptyFS EXCEPT ![PairPath] = pair.dest]
    /\ dest = dest0 /\ prev = EmptyFS
    /\ cow = FALSE /\ ignored = {}
    /\ nconc = 1
    /\ nnodes = 0 /\ parent = <<>>
    /\ stack = <<>>
    /\ nact = 0 /\ failed = FALSE
    /\ pc = StartPcs
    /\ cur = [w \in Workers |-> NoPair]
    /\ kids = [w \in Workers |-> <<>>]
    /\ werr = [w \in Workers |-> NilErr]
    /\ watcherDone = FALSE /\ ctxDone = FALSE /\ cctxDone = FALSE
    /\ egErr = NilErr /\ result = Running
    /\ calls = [p \in AllPaths |-> 0]
    /\ errs = {} /\ firstFail = 0 /\ cancelLive = FALSE
    /\ inodes = <<>> /\ stats = ZeroStats
    /\ att = [w \in Workers |-> NoAtt]
    /\ faults = 0 /\ runNo = 1

\* fp.FileOperation()
ClassifyPair ==
    /\ fileOp = UnknownFileOperation
    /\ fileOp' = FileOperation(pair)
    /\ UNCHANGED <<pdfsVars, argVars, obsVars, fsVars, upVars, pair,
                   cowVars, pathVars, sftpVars>>

\* The closure of Upload.transfer on the pair, once.
TransferPair ==
    /\ calls[PairPath] = 0
    /\ LET r == IF IsDir(FileInfo(pair)) THEN transferDirectory(pair, dest, stats, NoFault)
                ELSE IF pair.src.kind = "none" THEN removeFile(pair, dest, stats, NoFault)
                ELSE materialize(pair, dest, stats, NoFault)
       IN /\ dest' = r.fs
          /\ stats' = r.stats
          /\ werr' = [werr EXCEPT ![1] = r.err]
    /\ calls' = [calls EXCEPT ![PairPath] = 1]
    /\ UNCHANGED <<stack, nact, failed, pc, cur, kids, watcherDone, ctxDone,
                   cctxDone, egErr, result, argVars, errs, firstFail,
                   cancelLive, src, prev, cow, ignored, inodes, att, faults,
                   runNo, dest0, unitVars>>

NextFilePair ==
    \/ ClassifyPair
    \/ TransferPair

SpecFilePair == InitFilePair /\ [][NextFilePair]_vars

(***************************************************************************)
(* COW on its own: NewCOW, the first write, the end of the run, the close  *)
(* function of the command and Finish.  A snapshot path <host>/<ts> is the *)
(* pair <<host, ts>>; timestamps are numbered in their string order.       *)
(***************************************************************************)
MaxTs == 3
MaxRuns == 2
Stamps == 1..MaxTs

\* Every part of the engine at rest.
IdleEngine ==
    /\ src = EmptyFS /\ dest0 = EmptyFS /\ dest = EmptyFS /\ prev = EmptyFS
    /\ cow = FALSE /\ ignored = {}
    /\ nconc = 1
    /\ nnodes = 0 /\ parent = <<>>
    /\ stack = <<>>
    /\ nact = 0 /\ failed = FALSE
    /\ pc = StartPcs
    /\ cur = [w \in Workers |-> NoPair]
    /\ kids = [w \in Workers |-> <<>>]
    /\ werr = [w \in Workers |-> NilErr]
    /\ watcherDone = FALSE /\ ctxDone = FALSE /\ cctxDone = FALSE
    /\ egErr = NilErr /\ result = Running
    /\ calls = [p \in AllPaths |-> 0]
    /\ errs = {} /\ firstFail = 0 /\ cancelLive = FALSE
    /\ inodes = <<>> /\ stats = ZeroStats
    /\ att = [w \in Workers |-> NoAtt]
    /\ faults = 0 /\ runNo = 1

\* Path.Base of a snapshot path.  The base name of the empty path is ".",
\* which sorts before every timestamp: it is numbered 0.
Base(snap) == snap[2]

\* NewCOW on backend st for host h (0 is the empty string) at timestamp t;
\* e1 and e2 tell whether the two Readlink calls fail for another reason
\* than the link being absent.
NewCOW(st, h, t, e1, e2) ==
    LET herr == IF e1 THEN "io" ELSE IF st.hostLatest[h] = 0 THEN "notexist" ELSE "nil"
        gerr == IF e2 THEN "io" ELSE IF st.latest = NoSnap THEN "notexist" ELSE "nil"
        rdir == IF herr = "nil" THEN <<h, st.hostLatest[h]>>
                ELSE IF herr = "io" THEN NoSnap
                ELSE IF gerr = "nil" THEN st.latest
                ELSE <<h, t>>
    IN IF h = 0 THEN [err |-> "hostempty", rroot |-> NoSnap, wroot |-> NoSnap]
       ELSE IF herr = "notexist" /\ gerr = "io"
       THEN [err |-> "io", rroot |-> NoSnap, wroot |-> NoSnap]
       ELSE IF t < Base(rdir)
       THEN [err |-> "newer", rroot |-> NoSnap, wroot |-> NoSnap]
       ELSE [err |-> "nil", rroot |-> rdir, wroot |-> <<h, t>>]

\* makeFileSystemFromURL for a cow+ destination.
CowNew ==
    /\ cowInst.pos \in {"none", "closed"}
    /\ cowInst.n < MaxRuns
    /\ \E h \in 0..MaxHosts, t \in Stamps, e1 \in BOOLEAN, e2 \in BOOLEAN :
          LET r == NewCOW(cowStore, h, t, e1, e2)
          IN cowInst' = IF r.err = "nil"
                        THEN [NoCOW EXCEPT !.pos = "open", !.host = h, !.ts = t,
                                           !.rroot = r.rroot, !.wroot = r.wroot,
                                           !.store0 = cowStore, !.n = cowInst.n + 1]
                        ELSE [NoCOW EXCEPT !.pos = "closed", !.ferr = r.err,
                                           !.store0 = cowStore, !.n = cowInst.n + 1]
    /\ UNCHANGED <<pdfsVars, argVars, obsVars, fsVars, upVars, pairVars,
                   cowStore, pathVars, sftpVars>>

\* COW.init, run by the first write: the snapshot directory must be new.
CowInit ==
    /\ cowInst.pos = "open" /\ cowInst.made = "no"
    /\ \E ok \in BOOLEAN :
          IF ok /\ cowInst.wroot \notin cowStore.dirs
          THEN /\ cowStore' = [cowStore EXCEPT !.dirs = @ \cup {cowInst.wroot}]
               /\ cowInst' = [cowInst EXCEPT !.made = "yes"]
          ELSE /\ cowInst' = [cowInst EXCEPT !.made = "failed"]
               /\ UNCHANGED cowStore
    /\ UNCHANGED <<pdfsVars, argVars, obsVars, fsVars, upVars, pairVars,
                   pathVars, sftpVars>>

\* Upload.Run returns to the command.  It returns nil only when the root
\* directory was written.
CowRunEnds ==
    /\ cowInst.pos = "open"
    /\ \E e \in {"nil", "failed", "canceled"} :
          /\ e = "nil" => cowInst.made = "yes"
          /\ cowInst.made = "failed" => e # "nil"
          /\ cowInst' = [cowInst EXCEPT !.pos = "ran", !.rerr = e]
    /\ UNCHANGED <<pdfsVars, argVars, obsVars, fsVars, upVars, pairVars,
                   cowStore, pathVars, sftpVars>>

\* The close function of makeFileSystemFromURL calls Finish when it is given
\* a nil error.
closeFinishes_always(err) == TRUE
closeFinishes(err) == err = "nil"

CowClose ==
    /\ cowInst.pos = "ran"
    /\ cowInst' = IF closeFinishes(cowInst.rerr)
                  THEN [cowInst EXCEPT !.pos = "finish", !.step = 1]
                  ELSE [cowInst EXCEPT !.pos = "closed"]
    /\ UNCHANGED <<pdfsVars, argVars, obsVars, fsVars, upVars, pairVars,
                   cowStore, pathVars, sftpVars>>

\* The link the k-th atomicSymlink of Finish writes, and the directory that
\* holds it (0 is the root of the backend).
FinishLink_global_first(k) ==
    CASE k = 1 -> "latest" [] k = 2 -> "complete" [] OTHER -> "hostLatest"
FinishLink(k) ==
    CASE k = 1 -> "complete" [] k = 2 -> "hostLatest" [] OTHER -> "latest"
LinkDir(link, h) == IF link = "latest" THEN 0 ELSE h

\* Rename of <dir>/.new over the link.
renameOver(st, link, snap) ==
    LET d == LinkDir(link, snap[1])
        st1 == [st EXCEPT !.new[d] = NoSnap]
    IN CASE link = "complete" -> [st1 EXCEPT !.complete = @ \cup {snap}]
         [] link = "hostLatest" -> [st1 EXCEPT !.hostLatest[snap[1]] = snap[2]]
         [] OTHER -> [st1 EXCEPT !.latest = snap]

\* What a call on the backend may come to: carried out and answered, lost
\* before it was carried out, or carried out with the answer lost.
CallFates == {"ok", "lostBefore", "lostAfter"}

\* atomicSymlink, first half: Symlink to <dir>/.new, which must not exist.
FinishSymlink ==
    /\ cowInst.pos = "finish" /\ cowInst.step \in {1, 3, 5}
    /\ \E fate \in CallFates :
          LET d == LinkDir(FinishLink((cowInst.step + 1) \div 2), cowInst.host)
              exists == cowStore.new[d] # NoSnap
          IN /\ cowStore' = IF fate = "lostBefore" \/ exists THEN cowStore
                            ELSE [cowStore EXCEPT !.new[d] = cowInst.wroot]
             /\ cowInst' = IF fate = "ok" /\ ~exists
                           THEN [cowInst EXCEPT !.step = @ + 1]
                           ELSE [cowInst EXCEPT !.pos = "closed",
                                                !.ferr = IF fate = "lostBefore" \/ ~exists
                                                         THEN "lost" ELSE "exist"]
    /\ UNCHANGED <<pdfsVars, argVars, obsVars, fsVars, upVars, pairVars,
                   pathVars, sftpVars>>

\* atomicSymlink, second half: Rename of <dir>/.new over the link.  After
\* the third atomicSymlink Finish returns nil.
FinishRename ==
    /\ cowInst.pos = "finish" /\ cowInst.step \in {2, 4, 6}
    /\ \E fate \in CallFates :
          /\ cowStore' = IF fate = "lostBefore" THEN cowStore
                         ELSE renameOver(cowStore, FinishLink(cowInst.step \div 2),
                                         cowInst.wroot)
          /\ cowInst' = IF fate # "ok"
                        THEN [cowInst EXCEPT !.pos = "closed", !.ferr = "lost"]
                        ELSE IF cowInst.step = 6
                        THEN [cowInst EXCEPT !.pos = "closed", !.ferr = "nil"]
                        ELSE [cowInst EXCEPT !.step = @ + 1]
    /\ UNCHANGED <<pdfsVars, argVars, obsVars, fsVars, upVars, pairVars,
                   pathVars, sftpVars>>

InitCOW ==
    /\ IdleEngine
    /\ InitUnit

NextCOW ==
    \/ CowNew
    \/ CowInit
    \/ CowRunEnds
    \/ CowClose
    \/ FinishSymlink
    \/ FinishRename

SpecCOW == InitCOW /\ [][NextCOW]_vars

(***************************************************************************)
(* The writes of a COW, by concurrent callers.                             *)
(***************************************************************************)
\* The writes that begin with fs.init(), and those that do not.
InitOps == {"Create", "Keep", "Mkdir", "Link", "Symlink"}
PlainOps == {"Rename", "Chmod", "Lchown", "Chtimes"}

CowIdle == <<pdfsVars, argVars, obsVars, fsVars, upVars, pairVars, pathVars, sftpVars>>

\* A caller calls a write of the COW.
CowCall(c) ==
    /\ cowInst.pos = "open" /\ cowInst.wr.ops[c].pc = "idle"
    /\ \E o \in InitOps \cup PlainOps :
          cowInst' = [cowInst EXCEPT !.wr.ops[c] =
                         [pc |-> IF o \in InitOps THEN "init" ELSE "backend",
                          op |-> o]]
    /\ UNCHANGED <<CowIdle, cowStore>>

\* initOnce.Do: the first caller starts the goroutine of initGroup; Do
\* returns to every caller once that is done.
CowOnceDo(c) ==
    /\ cowInst.wr.ops[c].pc = "init"
    /\ cowInst' = [cowInst EXCEPT
                      !.wr.init = IF @ = "idle" THEN "host" ELSE @,
                      !.wr.ops[c].pc = "wait"]
    /\ UNCHANGED <<CowIdle, cowStore>>

\* The goroutine: Mkdir(<host>), whose "exists" error is passed over;
CowMkdirHost ==
    /\ cowInst.wr.init = "host"
    /\ \E fate \in {"ok", "exist", "io"} :
          cowInst' = IF fate = "io"
                     THEN [cowInst EXCEPT !.wr.nhost = @ + 1, !.wr.init = "done",
                                          !.wr.ierr = "io", !.made = "failed"]
                     ELSE [cowInst EXCEPT !.wr.nhost = @ + 1, !.wr.init = "snap"]
    /\ UNCHANGED <<CowIdle, cowStore>>

\* then Mkdir(<host>/<ts>), which must be new.
CowMkdirSnap ==
    /\ cowInst.wr.init = "snap"
    /\ \E ok \in BOOLEAN :
          IF ok /\ cowInst.wroot \notin cowStore.dirs
          THEN /\ cowStore' = [cowStore EXCEPT !.dirs = @ \cup {cowInst.wroot}]
               /\ cowInst' = [cowInst EXCEPT !.wr.nts = @ + 1, !.wr.init = "done",
                                             !.made = "yes"]
          ELSE /\ cowInst' = [cowInst EXCEPT
                                 !.wr.nts = @ + 1, !.wr.init = "done",
                                 !.wr.ierr = IF cowInst.wroot \in cowStore.dirs
                                             THEN "exist" ELSE "io",
                                 !.made = "failed"]
               /\ UNCHANGED cowStore
    /\ UNCHANGED CowIdle

\* initGroup.Wait returns: the write returns the error of init, or goes on.
CowWait(c) ==
    /\ cowInst.wr.ops[c].pc = "wait" /\ cowInst.wr.init = "done"
    /\ cowInst' = IF cowInst.wr.ierr # "nil"
                  THEN [cowInst EXCEPT !.wr.ops[c] = NoWrite]
                  ELSE [cowInst EXCEPT !.wr.ops[c].pc = "backend"]
    /\ UNCHANGED <<CowIdle, cowStore>>

\* The write calls the backend with a path under wroot, and returns.
CowBackend(c) ==
    /\ cowInst.wr.ops[c].pc = "backend"
    /\ cowInst' = [cowInst EXCEPT
                      !.wr.early = @ \/ cowInst.wr.init # "done",
                      !.wr.slipped = @ \/ (cowInst.wr.init = "done"
                                            /\ cowInst.wr.ierr # "nil"),
                      !.wr.ops[c] = NoWrite]
    /\ UNCHANGED <<CowIdle, cowStore>>

\* Upload.Run returns once its workers have.
CowWritesEnd ==
    /\ \A c \in Callers : cowInst.wr.ops[c].pc = "idle"
    /\ cowInst.wr.init \in {"idle", "done"}
    /\ CowRunEnds

\* A COW just constructed on a backend without .latest links, on which an
\* earlier run that failed may have left the snapshot directory.
InitCowWrite ==
    /\ IdleEngine
    /\ pair = NoPair /\ fileOp = UnknownFileOperation
    /\ resolveArg = NoResolve /\ resolved = EmptyPath
    /\ rclient = NoClient /\ rops = NoOps /\ rlog = NoLog
    /\ \E h \in Hosts, t \in Stamps, left \in BOOLEAN :
          /\ cowStore = [EmptyStore EXCEPT !.dirs = IF left THEN {<<h, t>>} ELSE {}]
          /\ cowInst = [NoCOW EXCEPT
                           !.pos = "open", !.host = h, !.ts = t,
                           !.rroot = NewCOW(cowStore, h, t, FALSE, FALSE).rroot,
                           !.wroot = NewCOW(cowStore, h, t, FALSE, FALSE).wroot,
                           !.store0 = cowStore, !.n = 1]

NextCowWrite ==
    \/ \E c \in Callers : CowCall(c) \/ CowOnceDo(c) \/ CowWait(c) \/ CowBackend(c)
    \/ CowMkdirHost
    \/ CowMkdirSnap
    \/ CowWritesEnd

SpecCowWrite == InitCowWrite /\ [][NextCowWrite]_vars

(***************************************************************************)
(* Path.Resolve on its own.  A path string is whether it starts with a     *)
(* separator, and its components between separators.                       *)
(***************************************************************************)
MaxRootLen == 2
MaxPathLen == 3
SeqsUpTo(S, n) == UNION {[1..k -> S] : k \in 0..n}
\* The roots a file system is made with, and the paths it may be given.
RootPaths == [abs : BOOLEAN, comps : SeqsUpTo({"a", "b"}, MaxRootLen)]
GivenPaths == [abs : BOOLEAN, comps : SeqsUpTo({"a", ".", ".."}, MaxPathLen)]

\* filepath.Clean: "." is dropped, ".." removes the component before it, is
\* dropped at the root, and stays at the head of a relative path.
RECURSIVE CleanFrom(_, _, _, _)
CleanFrom(abs, comps, i, out) ==
    IF i > Len(comps) THEN out
    ELSE LET c == comps[i]
         IN IF c = "." THEN CleanFrom(abs, comps, i + 1, out)
            ELSE IF c # ".." THEN CleanFrom(abs, comps, i + 1, Append(out, c))
            ELSE IF Len(out) > 0 /\ out[Len(out)] # ".."
            THEN CleanFrom(abs, comps, i + 1, SubSeq(out, 1, Len(out) - 1))
            ELSE IF abs THEN CleanFrom(abs, comps, i + 1, out)
            ELSE CleanFrom(abs, comps, i + 1, Append(out, ".."))
Clean(q) == [abs |-> q.abs, comps |-> CleanFrom(q.abs, q.comps, 1, <<>>)]

IsEmptyString(q) == ~q.abs /\ q.comps = <<>>

\* filepath.Join of two elements: empty elements are left out, the others
\* are joined with a separator, and the result is cleaned.
Join(p, pp) ==
    IF IsEmptyString(p) THEN (IF IsEmptyString(pp) THEN EmptyPath ELSE Clean(pp))
    ELSE Clean([abs |-> p.abs, comps |-> p.comps \o pp.comps])

\* p.Resolve(pp) on path strings of any shape.
Path_Resolve(p, pp) == Join(p, pp)

InitResolve ==
    /\ IdleEngine
    /\ pair = NoPair /\ fileOp = UnknownFileOperation
    /\ cowStore = EmptyStore /\ cowInst = NoCOW
    /\ rclient = NoClient /\ rops = NoOps /\ rlog = NoLog
    /\ resolveArg \in [p : RootPaths, pp : GivenPaths, done : {FALSE}]
    /\ resolved = EmptyPath

ResolvePath ==
    /\ ~resolveArg.done
    /\ resolved' = Path_Resolve(resolveArg.p, resolveArg.pp)
    /\ resolveArg' = [resolveArg EXCEPT !.done = TRUE]
    /\ UNCHANGED <<pdfsVars, argVars, obsVars, fsVars, upVars, pairVars,
                   cowVars, sftpVars>>

NextResolve == ResolvePath

SpecResolve == InitResolve /\ [][NextResolve]_vars

(***************************************************************************)
(* ReconnectingSFTPClient on its own: callers of do, and Close.            *)
(***************************************************************************)
MaxDials == 2
ClientIds == 1..2
ErrClientClosed == ErrOf("closed")

\* The dialer returns a client, which may be one it returned before, or an
\* error.
DialResults == [client : ClientIds, clientErr : {NilErr}] \cup
               {[client |-> 0, clientErr |-> ErrOf("dial")]}

\* getClient dials when there is no client and Close was not called.
getClient_dials(rc) == rc.client = 0 /\ rc.clientErr # ErrClientClosed

\* do, up to the return of getClient.
GetClient(c) ==
    /\ rops[c].pc = "idle"
    /\ IF getClient_dials(rclient)
       THEN /\ rlog.dials < MaxDials
            /\ \E r \in DialResults :
                 /\ rclient' = r
                 /\ rlog' = [rlog EXCEPT !.dials = @ + 1,
                                         !.lateDial = @ \/ rlog.closed,
                                         !.open = IF r.client = 0 THEN @
                                                  ELSE @ \cup {r.client}]
       ELSE UNCHANGED <<rclient, rlog>>
    /\ rops' = [rops EXCEPT ![c] =
                  [NoOp EXCEPT !.pc = IF rclient'.clientErr = NilErr THEN "call" ELSE "done",
                               !.client = rclient'.client,
                               !.err = rclient'.clientErr,
                               !.afterClose = rlog.closed]]
    /\ UNCHANGED <<pdfsVars, argVars, obsVars, fsVars, upVars, pairVars,
                   cowVars, pathVars>>

\* do: fun runs on the client; a nil error ends the call.
CallClient(c) ==
    /\ rops[c].pc = "call"
    /\ \E e \in {NilErr, ErrOf("lost"), ErrOf("notexist")} :
          rops' = [rops EXCEPT ![c].err = e,
                               ![c].pc = IF e = NilErr THEN "done" ELSE "handle"]
    /\ rlog' = [rlog EXCEPT !.lateCall = @ \/ rops[c].afterClose]
    /\ UNCHANGED <<pdfsVars, argVars, obsVars, fsVars, upVars, pairVars,
                   cowVars, pathVars, rclient>>

\* handleError drops the client only when it still is the one that was used.
handleError_drops_any(rc, used) == TRUE
handleError_drops(rc, used) == rc.client = used

HandleError(c) ==
    /\ rops[c].pc = "handle"
    /\ IF IsRetriable(rops[c].err) /\ handleError_drops(rclient, rops[c].client)
       THEN /\ rclient' = [client |-> 0, clientErr |-> NilErr]
            /\ rlog' = [rlog EXCEPT !.open = @ \ {rops[c].client}]
       ELSE UNCHANGED <<rclient, rlog>>
    /\ rops' = [rops EXCEPT ![c].pc = "done", ![c].handledLate = rlog.closed]
    /\ UNCHANGED <<pdfsVars, argVars, obsVars, fsVars, upVars, pairVars,
                   cowVars, pathVars>>

\* The caller has its result and may call again.
CallAgain(c) ==
    /\ rops[c].pc = "done"
    /\ rops' = [rops EXCEPT ![c] = NoOp]
    /\ UNCHANGED <<pdfsVars, argVars, obsVars, fsVars, upVars, pairVars,
                   cowVars, pathVars, rclient, rlog>>

\* Close
ClientClose ==
    /\ rclient' = [client |-> 0, clientErr |-> ErrClientClosed]
    /\ rlog' = [rlog EXCEPT !.closed = TRUE, !.open = @ \ {rclient.client}]
    /\ UNCHANGED <<pdfsVars, argVars, obsVars, fsVars, upVars, pairVars,
                   cowVars, pathVars, rops>>

\* NewReconnectingSFTPClient has returned a client: its dialer worked once.
InitReconnect ==
    /\ IdleEngine
    /\ pair = NoPair /\ fileOp = UnknownFileOperation
    /\ cowStore = EmptyStore /\ cowInst = NoCOW
    /\ resolveArg = NoResolve /\ resolved = EmptyPath
    /\ \E id \in ClientIds :
          /\ rclient = [client |-> id, clientErr |-> NilErr]
          /\ rlog = [NoLog EXCEPT !.dials = 1, !.open = {id}]
    /\ rops = NoOps

NextReconnect ==
    \/ \E c \in Callers : GetClient(c)
    \/ \E c \in Callers : CallClient(c)
    \/ \E c \in Callers : HandleError(c)
    \/ \E c \in Callers : CallAgain(c)
    \/ ClientClose

SpecReconnect == InitReconnect /\ [][NextReconnect]_vars

(***************************************************************************)
(* Properties of the traversal.                                            *)
(***************************************************************************)
AllOnce == \A n \in Nodes : calls[n] = 1
InFlight == {w \in Spawned : pc[w] \in {"fn", "give", "fail"}}

\* C1: with no failing invocation of fun and no cancellation, filePairPDFS
\* terminates returning nil, and by then fun has run exactly once on every
\* root and on every returned child; no pair is ever processed twice.
C1_TraversalCompletes ==
    /\ <>(errs # {} \/ ctxDone \/ (result = NilErr /\ AllOnce))
    /\ [](errs = {} /\ ~ctxDone => \A n \in Nodes : calls[n] <= 1)
    /\ [](errs = {} /\ ~ctxDone /\ result # Running
            => result = NilErr /\ AllOnce)

C1_Witness ==
    /\ result = NilErr /\ errs = {} /\ ~ctxDone
    /\ nnodes = MaxNodes /\ nconc > 1
    /\ \E n \in Nodes : parent[n] # 0
    /\ AllOnce

\* C7 as stated: when some invocation of fun fails, filePairPDFS returns the
\* error of the invocation whose fail() call set failed.
C7_FirstFailureReturned ==
    result # Running /\ errs # {} /\ ~ctxDone => result = FnErr(firstFail)

\* C7 amended: when some invocation of fun fails, filePairPDFS returns the
\* error of one of the failing invocations (the first one to reach the error
\* group), never nil and never a cancellation error of its own shutdown; a
\* cancellation error is returned only if the caller cancelled.
C7_SomeFailureReturned ==
    result # Running /\ errs # {}
        => \/ result.kind = "fn" /\ result.at \in errs
           \/ ctxDone /\ result = Canceled

C7_Witness ==
    /\ result.kind = "fn" /\ ~ctxDone
    /\ Cardinality(errs) > 1
    /\ result.at # firstFail

\* C8 as stated: a call whose context was cancelled while it was executing
\* returns the cancellation error.
C8_CancelReturnsCanceled ==
    result # Running /\ ctxDone => result = Canceled

\* C8 amended: a call whose context is cancelled while some worker is still
\* in its loop returns once the invocations in flight have returned, and it
\* returns the cancellation error unless an invocation of fun failed, in
\* which case it may return that invocation's error.
C8_CancelTerminates ==
    /\ [](result # Running /\ cancelLive
            => \/ result = Canceled
               \/ result.kind = "fn" /\ result.at \in errs)
    /\ [](result # Running /\ cancelLive /\ errs = {} => result = Canceled)
    /\ (ctxDone ~> result # Running)

C8_Witness ==
    /\ result = Canceled /\ cancelLive /\ watcherDone /\ errs = {}
    /\ \E n \in Nodes : calls[n] = 0

\* C10: nact is the number of pairs taken and not yet given or failed; it is
\* never negative and never above nconc, so at most nconc invocations of fun
\* execute at a time.
C10_InFlightBounded ==
    /\ nact = Cardinality(InFlight)
    /\ nact >= 0
    /\ nact <= nconc
    /\ Cardinality({w \in Workers : pc[w] = "fn"}) <= nconc

C10_Witness == nact = nconc /\ nconc = MaxWorkers /\ Len(stack) > 0

(***************************************************************************)
(* Properties of Upload.                                                   *)
(***************************************************************************)
Success == result = NilErr
\* The traversal skips a path when the filter matches it or a directory
\* above it.
Matched(q) == <<q, PairIsDir(q)>> \in ignored
Ignored(p) == \E q \in AllPaths : (q = p \/ Below(q, p)) /\ Matched(q)
Within1s(t, u) == t - u <= Second /\ u - t <= Second
SamePerm(e, f) == MaskMode(e.mode) = MaskMode(f.mode)

\* The source paths the run has to bring over.
Wanted == {p \in AllPaths : Exists(src, p) /\ ~Ignored(p)}

\* C2 for regular files: after a run that returns success, every regular
\* file of the source that is not ignored has a destination entry with the
\* same size, the same permission bits, and an mtime within one second of
\* the source's.
C2_FilesMirrorSource ==
    Success => \A p \in Wanted :
                  src[p].kind = "file" =>
                        /\ dest[p].kind = "file"
                        /\ dest[p].size = src[p].size
                        /\ SamePerm(dest[p], src[p])
                        /\ Within1s(dest[p].mtime, src[p].mtime)

\* The source files that share inode i with other names.
Group(i) == {p \in AllPaths : src[p].kind = "file" /\ src[p].nlink >= 2
                                /\ src[p].ino = i /\ ~Ignored(p)}
SrcInodes == {src[p].ino : p \in AllPaths}

\* C3, for the runs that return success: after the run, the destination
\* files of every group of source files sharing an inode all exist and share
\* one inode.
C3_GroupsHardlinked ==
    Success =>
        \A i \in SrcInodes :
            \A p, q \in Group(i) : Exists(dest, p) /\ dest[p].ino = dest[q].ino

\* Every name of every source inode is a path the run visits.
AllLinksVisited ==
    \A p \in AllPaths : src[p].kind = "file" /\ src[p].nlink >= 2 =>
        ~Ignored(p) /\ src[p].nlink = Cardinality(Group(src[p].ino))

\* C4: after a run that returns success the linkSet is empty.  (Stated for
\* the sources all of whose hardlinked names the run visits: a record of an
\* inode with a name the run does not visit is never removed.)
C4_LinkSetEmpty == Success /\ AllLinksVisited => DOMAIN inodes = {}

C6_SecondRunKeepsAll ==
    runNo = 2 /\ result # Running =>
        /\ Success
        /\ stats.UploadedFiles = 0 /\ stats.UploadedBytes = 0
        /\ stats.RemovedFiles = 0 /\ stats.RemovedDirectories = 0
        /\ stats.KeptFiles = Cardinality({p \in Wanted : ~IsDir(src[p])})
        /\ stats.KeptDirectories = Cardinality({p \in Wanted : IsDir(src[p])})

\* C9: a transfer that backed off after a retriable error and ran its
\* closure again does not fail: Idempotent returns nil, or the cancellation
\* error if the run was given up meanwhile.
C9_RetrySucceeds ==
    \A w \in Spawned : pc[w] = "fail" /\ att[w].tries > 0 => werr[w] = Canceled

(***************************************************************************)
(* Properties of process, Idempotent and the counters.                     *)
(***************************************************************************)
Returned == result # Running /\ result # PanicErr
InTransfer == {"attempt", "work", "ffwait", "ffwoken", "backoff"}

\* C11: InProgress is zero once Run has returned, whatever it returned; while
\* it runs, InProgress is the number of invocations of process that have not
\* yet returned, so every increment is matched by one decrement.
C11_InProgressZero ==
    /\ Returned => stats.InProgress = 0
    /\ result # PanicErr
         => stats.InProgress = Cardinality({w \in Spawned : pc[w] \in InTransfer})

C11_Witness ==
    /\ Returned /\ result # NilErr
    /\ stats.InProgress = 0
    /\ \E p \in AllPaths : calls[p] > 0
    /\ \E w \in Spawned : att[w].ret # Running /\ att[w].ret # NilErr

VisitedFiles == {p \in AllPaths : calls[p] > 0 /\ ~PairIsDir(p)}
FileCounters == stats.UploadedFiles + stats.KeptFiles + stats.RemovedFiles
                    + stats.DiscardedFiles + stats.IgnoredFiles

\* C12, for the runs that return success: the file counters add up to the
\* number of regular-file and symlink pairs process was invoked on.
C12_FileCountersAddUp ==
    Success /\ runNo = 1 => FileCounters = Cardinality(VisitedFiles)

\* C15: Idempotent returns the closure's result as soon as it is nil or not
\* retriable, and then the closure has run once more than it returned
\* retriable errors; it backs off only after a retriable error, and it calls
\* the closure again only after a completed back-off.
C15_IdempotentCalls ==
    \A w \in Spawned :
        LET a == att[w]
        IN /\ a.ret # Running /\ a.ret # Canceled
                => /\ a.ret = a.last
                   /\ (a.last = NilErr \/ ~IsRetriable(a.last))
                   /\ a.runs = a.rerrs + 1
           /\ pc[w] = "backoff" => IsRetriable(a.last) /\ a.runs = a.rerrs
           /\ pc[w] = "attempt" => a.runs = a.tries
           /\ pc[w] # "attempt" /\ a.runs > 0 => a.runs = a.tries + 1
           /\ a.runs > 0 /\ a.ret = Running /\ pc[w] # "backoff" => a.rerrs = a.tries

C15_Witness ==
    \E w \in Spawned : att[w].ret = NilErr /\ att[w].rerrs = MaxFaults /\ att[w].runs = MaxFaults + 1

C17_RetriesCounted ==
    /\ [][runNo' = runNo =>
            stats'.TransferRetries - stats.TransferRetries
                = Cardinality({w \in Workers : /\ att'[w].runs = att[w].runs + 1
                                               /\ att[w].runs >= 1})]_vars
    /\ [](\A w \in Spawned : nconc = 1 /\ att[w].ret # Running
             => stats.TransferRetries - att[w].base = att[w].runs - 1)

C17_Witness ==
    /\ nconc = 1 /\ att[1].ret = NilErr /\ att[1].runs = 2
    /\ stats.TransferRetries = 1 /\ stats.UploadedFiles = 1

\* C18: while a transfer is under way the hook has been called once, with
\* InProgress; when it has ended the hook has been called twice, the second
\* time with what Idempotent returned.
C18_HookTwice ==
    \A w \in Spawned :
        /\ pc[w] \in InTransfer => att[w].hook = <<InProgress>>
        /\ att[w].ret # Running => att[w].hook = <<InProgress, att[w].ret>>

C18_Witness ==
    \E w \in Spawned : att[w].tries > 0 /\ att[w].hook = <<InProgress, NilErr>>

\* C19: a pair whose filter path matches the ignore filter is counted once
\* as ignored, never reaches the transfer callback, has no listing, and
\* nothing below it is visited; the destination at and below it stays as
\* it was.
C19_IgnoredSkipped ==
    /\ stats.IgnoredFiles
          = Cardinality({p \in AllPaths : Matched(p) /\ calls[p] > 0 /\ ~PairIsDir(p)})
    /\ stats.IgnoredDirectories
          = Cardinality({p \in AllPaths : Matched(p) /\ calls[p] > 0 /\ PairIsDir(p)})
    /\ \A p \in AllPaths : Matched(p) =>
          /\ calls[p] <= 1
          /\ \A q \in AllPaths : Below(p, q) => calls[q] = 0
          /\ \A q \in AllPaths : calls[p] > 0 /\ (q = p \/ Below(p, q))
                => dest[q] = dest0[q]
    /\ \A w \in Spawned :
          pc[w] \in InTransfer \cup {"give", "fail"} /\ Matched(cur[w].path)
             => pc[w] = "give" /\ kids[w] = <<>> /\ att[w] = NoAtt

C19_Witness ==
    /\ Success
    /\ Matched(<<3>>) /\ IsDir(src[<<3>>]) /\ Exists(src, <<3, 1>>)
    /\ calls[<<3>>] = 1 /\ calls[<<3, 1>>] = 0
    /\ stats.IgnoredDirectories = 1
    /\ ~Exists(dest, <<3>>)

\* C20: the listing of a directory of the source has exactly one pair for
\* each name found in it on the source or on the destination, at the path
\* of that name, with the source and destination entries of that name; a
\* destination without the directory lists as empty, and a listing that
\* fails yields no pairs and fails the run.
C20_ListDirJoins ==
    /\ \A d \in {RootPath} \cup {p \in AllPaths : IsDir(src[p])} :
          LET l == listDir(src, DestRead, d)
              InSrc(n) == Resolve(d, n) \in AllPaths /\ Exists(src, Resolve(d, n))
              InDst(n) == /\ Resolve(d, n) \in AllPaths
                          /\ d = RootPath \/ IsDir(DestRead[d])
                          /\ Exists(DestRead, Resolve(d, n))
          IN /\ \A n \in 1..3 :
                  Cardinality({i \in 1..Len(l) : l[i].path = Resolve(d, n)})
                     = IF InSrc(n) \/ InDst(n) THEN 1 ELSE 0
             /\ \A i \in 1..Len(l) :
                  \E n \in 1..3 :
                     /\ l[i].path = Resolve(d, n)
                     /\ l[i].src = IF InSrc(n) THEN src[l[i].path] ELSE NoEnt
                     /\ l[i].dest = IF InDst(n) THEN DestRead[l[i].path] ELSE NoEnt
    /\ \A w \in Spawned :
          /\ pc[w] \in InTransfer /\ att[w].lerr = NilErr /\ IsDir(cur[w].src)
                => \A i \in 1..Len(kids[w]) : Dir(kids[w][i].path) = cur[w].path
          /\ att[w].lerr # NilErr
                => /\ kids[w] = <<>>
                   /\ pc[w] # "give"
                   /\ att[w].ret # Running => werr[w] # NilErr
                   /\ result # NilErr

C20_Witness ==
    /\ Len(listDir(src, dest0, RootPath)) = 2
    /\ \E w, v \in Spawned :
          /\ pc[w] \in InTransfer /\ pc[v] \in InTransfer
          /\ cur[w].src # NoEnt /\ cur[w].dest # NoEnt
          /\ cur[v].src = NoEnt /\ cur[v].dest # NoEnt

C20_WitnessNotFound ==
    \E w \in Spawned :
        /\ pc[w] \in InTransfer /\ cur[w].path = <<3>> /\ cur[w].dest = NoEnt
        /\ Len(kids[w]) = 1 /\ kids[w][1].dest = NoEnt

C20_WitnessListingFails ==
    \E w \in Spawned : att[w].lerr # NilErr /\ att[w].ret = NilErr /\ result = att[w].lerr

\* The callers that hold the materializer role, and those given a path.
Materializers ==
    {w \in Spawned : \/ pc[w] = "work" /\ att[w].first = RootPath
                     \/ pc[w] \in {"fulfill", "discard"}}
Linkers == {w \in Spawned : pc[w] = "work" /\ att[w].first # RootPath}
DestFiles == {p \in AllPaths : Exists(dest, p) /\ ~IsDir(dest[p])}

\* C13: no two callers hold the materializer role at once; and when no
\* materializer discards, FinishedFile returns "" to one caller only, every
\* other caller waits until that caller has transferred and called Fulfill,
\* and is then given that caller's path, to which it hardlinks.
C13_OneMaterializer ==
    /\ Cardinality(Materializers) <= 1
    /\ errs = {} =>
          /\ \A p, q \in DestFiles : dest[p].ino = dest[q].ino
          /\ \A w \in Materializers : DestFiles \subseteq {cur[w].path}
          /\ \A w \in Spawned :
                pc[w] \in {"ffwait", "ffwoken", "work"}
                   => Materializers # {} \/ DestFiles # {}
          /\ \A w \in Linkers :
                /\ Materializers = {}
                /\ att[w].first \in DestFiles
                /\ att[w].first # cur[w].path
                /\ 1 \in DOMAIN inodes => inodes[1].path = att[w].first
          /\ \A w \in Spawned : werr[w] = NilErr

C13_Witness ==
    /\ errs = {} /\ stack = <<>>
    /\ DestFiles = LsPaths(3)
    /\ \A w \in Spawned : pc[w] = "take"
    /\ inodes = <<>>

\* C14: a Discard that leaves the inode on record leaves it with no path
\* and not uploaded; a caller that returns from FinishedFile while the
\* record is so is given "" and has its path recorded; a discarded path is
\* never given to a caller as the path to link to.
C14_DiscardHandsOver ==
    /\ [][\A w \in Spawned :
            /\ pc[w] = "discard" /\ pc'[w] # "discard" /\ att[w].inode \in DOMAIN inodes'
                  => /\ inodes'[att[w].inode].path = RootPath
                     /\ ~inodes'[att[w].inode].uploaded
            /\ pc[w] \in {"attempt", "ffwoken"} /\ pc'[w] = "work"
                  /\ 1 \in DOMAIN inodes /\ inodes[1].path = RootPath
                  => /\ att'[w].first = RootPath
                     /\ inodes'[1].path = cur[w].path]_vars
    /\ [](\A w \in Linkers : att[w].first \notin errs /\ att[w].first \in DestFiles)
    /\ [](Cardinality(Materializers) <= 1 /\ \A w \in Spawned : werr[w] = NilErr)

C14_Witness ==
    /\ errs # {}
    /\ \E w \in Linkers, v \in Spawned :
          /\ att[w].first \notin errs
          /\ pc[v] = "take" /\ cur[v].path = att[w].first

\* Whether the two sides of the pair are equivalent: for a directory the
\* permission bits but owner-write are equal; for a file the sizes and the
\* permission bits are equal and the mtimes are at most a second apart.
Equivalent(fp) ==
    IF IsDir(fp.src)
    THEN ClearOwnerWrite(fp.dest.mode) = ClearOwnerWrite(fp.src.mode)
    ELSE /\ fp.dest.size = fp.src.size
         /\ fp.dest.mode = fp.src.mode
         /\ fp.dest.mtime - fp.src.mtime <= Second
         /\ fp.src.mtime - fp.dest.mtime <= Second
Classified == fileOp # UnknownFileOperation
BothSides(fp) == fp.src # NoEnt /\ fp.dest # NoEnt

\* C21: FileOperation gives a pair one of the four operations: Create iff
\* only the source is present, Remove iff only the destination is, Keep iff
\* both are and they are equivalent for the source's type, Update iff both
\* are and they are not.
C21_OneOperation ==
    Classified =>
        /\ fileOp \in {Create, Remove, Keep, Update}
        /\ fileOp = Create <=> pair.src # NoEnt /\ pair.dest = NoEnt
        /\ fileOp = Remove <=> pair.src = NoEnt /\ pair.dest # NoEnt
        /\ fileOp = Keep <=> BothSides(pair) /\ Equivalent(pair)
        /\ fileOp = Update <=> BothSides(pair) /\ ~Equivalent(pair)

C21_Witness ==
    /\ fileOp = Keep /\ IsDir(pair.src) /\ IsDir(pair.dest)
    /\ pair.src.mode # pair.dest.mode

FilePairBoth == pair.src.kind = "file" /\ pair.dest.kind = "file"
Transferred == calls[PairPath] = 1
WithinTolerance ==
    /\ pair.dest.size = pair.src.size
    /\ pair.dest.mode = pair.src.mode
    /\ pair.dest.mtime - pair.src.mtime <= Second
    /\ pair.src.mtime - pair.dest.mtime <= Second

\* C22: a regular file present on both sides is kept, and not transferred,
\* iff the sizes and the permission bits are equal and the mtimes are at
\* most one second apart; the transfer decides as FileOperation reports.
C22_KeepWithinSecond ==
    FilePairBoth =>
        /\ Classified => (fileOp = Keep <=> WithinTolerance)
        /\ Transferred =>
              /\ stats.KeptFiles = 1 <=> WithinTolerance
              /\ stats.UploadedFiles = 0 <=> WithinTolerance
        /\ Classified /\ Transferred => (fileOp = Keep <=> stats.KeptFiles = 1)

\* The part of C22 that is about FileOperation alone.
C22_OperationWithinSecond ==
    FilePairBoth /\ Classified => (fileOp = Keep <=> WithinTolerance)

C22_Witness ==
    /\ FilePairBoth /\ fileOp = Keep
    /\ pair.dest.mtime = pair.src.mtime + Second

SymlinkBoth == IsSymlink(pair.src) /\ IsSymlink(pair.dest)
TargetChanged == SymlinkBoth /\ pair.src.tgt # pair.dest.tgt

\* C23: a symlink whose target differs between the two sides is classified
\* Update and is made again with the source's target, whatever the sizes,
\* modes and mtimes of the two sides are.
C23_ChangedTargetUpdated ==
    TargetChanged =>
        /\ Classified => fileOp = Update
        /\ Transferred =>
              /\ stats.KeptFiles = 0
              /\ werr[1] = NilErr => dest[PairPath].tgt = pair.src.tgt

\* C24: when the source entry has gone by the time copyFile opens it or
\* createSymlink reads it, the pair adds one to DiscardedFiles and nothing
\* to the uploaded counters, leaves its path on the destination as it was,
\* and its transfer returns nil, so the run may still succeed.
C24_VanishedDiscarded ==
    [][\A w \in Spawned :
          /\ pc[w] = "work" /\ pc'[w] # "work"
          /\ ~(att[w].inode # 0 /\ att[w].first # RootPath)
          /\ vanished(cur[w], dest)
          => /\ stats'.DiscardedFiles = stats.DiscardedFiles + 1
             /\ stats'.UploadedFiles = stats.UploadedFiles
             /\ stats'.UploadedBytes = stats.UploadedBytes
             /\ dest'[cur[w].path] = dest[cur[w].path]
             /\ result' # PanicErr
             /\ att'[w].ret = NilErr]_vars

\* C25: when copyFile fails after the destination file was created (in
\* chmod, the byte copy, chown, close or chtimes), no file is left at the
\* path on the destination once the error is returned, whatever the
\* destination backend.
CopyFailsPastCreate(w) ==
    /\ pc[w] = "work" /\ pc'[w] # "work"
    /\ cur[w].src.kind = "file"
    /\ ~(att[w].inode # 0 /\ att[w].first # RootPath)
    /\ ~vanished(cur[w], dest)
    /\ \E flt \in FaultChoices :
          /\ flt.op \in {"write", "chtimes"}
          /\ materialize(cur[w], dest, stats, flt).err # NilErr
          /\ dest' = materialize(cur[w], dest, stats, flt).fs
          /\ att'[w].last = materialize(cur[w], dest, stats, flt).err
C25_FailedCopyUnlinked ==
    [][\A w \in Spawned :
          CopyFailsPastCreate(w) => ~Exists(dest', cur[w].path)]_vars

\* C26: NewCOW returns a COW only when the timestamp string is strictly
\* greater than the base name of the read root it chose.
C26_StrictlyNewer ==
    [][cowInst.pos # "open" /\ cowInst'.pos = "open"
         => cowInst'.ts > Base(cowInst'.rroot)]_vars

\* C27: Finish writes <host>/<ts>.complete, then <host>/.latest, then the
\* global .latest, each by a rename of <dir>/.new, and goes on to a link
\* only when the one before was written; so whenever the global .latest
\* points to the <host>/<ts> of a COW on which Finish was called, also after
\* a failure between two steps, <host>/.latest points to <ts> and
\* <host>/<ts>.complete exists.
FinishCalled == cowInst.step >= 1
LatestImpliesRest ==
    FinishCalled /\ cowStore.latest = cowInst.wroot
        => /\ cowStore.hostLatest[cowInst.host] = cowInst.ts
           /\ cowInst.wroot \in cowStore.complete
FinishInOrder ==
    /\ cowStore'.complete # cowStore.complete
         => /\ cowStore.new[cowInst.host] = cowInst.wroot
            /\ cowStore'.new[cowInst.host] = NoSnap
            /\ cowStore'.complete = cowStore.complete \cup {cowInst.wroot}
    /\ cowStore'.hostLatest # cowStore.hostLatest
         => /\ cowStore.new[cowInst.host] = cowInst.wroot
            /\ cowStore'.new[cowInst.host] = NoSnap
            /\ cowInst.wroot \in cowStore.complete
            /\ cowStore'.hostLatest[cowInst.host] = cowInst.ts
    /\ cowStore'.latest # cowStore.latest
         => /\ cowStore.new[0] = cowInst.wroot
            /\ cowStore'.new[0] = NoSnap
            /\ cowInst.wroot \in cowStore.complete
            /\ cowStore.hostLatest[cowInst.host] = cowInst.ts
            /\ cowStore'.latest = cowInst.wroot
Aborted == cowInst.pos = "closed" /\ cowInst.rerr \in {"failed", "canceled"}
LinksOf(st) == <<st.hostLatest, st.latest, st.complete, st.new>>
OnlyFinishLinks ==
    LinksOf(cowStore') # LinksOf(cowStore)
        => cowInst.pos = "finish" /\ cowInst.rerr = "nil"
AtOrBelow(r, q) ==
    /\ q.abs = r.abs
    /\ Len(q.comps) >= Len(Clean(r).comps)
    /\ SubSeq(q.comps, 1, Len(Clean(r).comps)) = Clean(r).comps
    /\ \A i \in 1..Len(q.comps) : q.comps[i] # ".."
C29_ResolveStaysBelow ==
    resolveArg.done => AtOrBelow(resolveArg.p, resolved)

\* C30: once Close was called on a ReconnectingSFTPClient, every call begun
\* later returns ErrClientClosed without the dialer or an underlying client
\* being used, whatever calls and error reports follow, among them the
\* handleError of a retriable error on a client obtained before Close; the
\* client is never dialled again.
C30_ClosedStaysClosed ==
    rlog.closed
        => /\ rclient = [client |-> 0, clientErr |-> ErrClientClosed]
           /\ ~rlog.lateDial /\ ~rlog.lateCall
           /\ \A c \in Callers :
                 rops[c].afterClose /\ rops[c].pc # "idle"
                     => rops[c].pc = "done" /\ rops[c].err = ErrClientClosed

\* A call that got its client before Close reported a lost connection after
\* Close, and a call begun after that has returned.
C30_Witness ==
    /\ rlog.closed
    /\ \E c \in Callers :
          /\ rops[c].pc = "done" /\ ~rops[c].afterClose
          /\ rops[c].handledLate /\ IsRetriable(rops[c].err)
    /\ \E c \in Callers :
          rops[c].pc = "done" /\ rops[c].afterClose

\* C31: a worker is blocked in take only while the stack is empty, nact is
\* positive and failed is false; and while failed is false take returns nil
\* only when the stack is empty and nact is 0, so that no invocation of fun
\* that could still give children is in flight when a worker leaves.
BlockedOnlyWhenIdle ==
    \A w \in Spawned : pc[w] = "wait" => Len(stack) = 0 /\ nact > 0 /\ ~failed
NilOnlyWhenDone ==
    \A w \in Spawned :
        pc[w] = "take" /\ pc'[w] = "ret" /\ ~failed
            => Len(stack) = 0 /\ nact = 0 /\ InFlight = {}
C31_TakeBlocksAndStops == []BlockedOnlyWhenIdle /\ [][NilOnlyWhenDone]_vars

\* A worker is blocked in take while the invocation of another worker is
\* about to give children.
C31_Witness ==
    /\ ~failed
    /\ \E w \in Spawned : pc[w] = "wait"
    /\ \E w \in Spawned : pc[w] = "fn" /\ Children(cur[w]) # <<>>

\* C32: once failed is set, by fail or by the watcher of the context, take
\* gives out no pair any more, whatever is on the stack: no invocation of
\* fun begins, no worker stays blocked in take, and filePairPDFS returns.
NoneBlockedOnceFailed == failed => \A w \in Spawned : pc[w] # "wait"
NoTakeOnceFailed ==
    failed => /\ \A w \in Spawned : pc'[w] = "fn" => pc[w] = "fn"
              /\ Len(stack') = Len(stack) \/ \E w \in Spawned : pc[w] = "give"
              /\ nact' <= nact
C32_FailedStopsTraversal ==
    /\ []NoneBlockedOnceFailed
    /\ [][NoTakeOnceFailed]_vars
    /\ (failed ~> result # Running)

\* filePairPDFS has returned after a failure, with pairs left on the stack
\* and a pair that fun never saw.
C32_Witness ==
    /\ failed /\ result # Running
    /\ Len(stack) > 0
    /\ \E n \in Nodes : calls[n] = 0
    /\ nconc > 1

\* C33: the link count of an inode on record goes down by exactly one on
\* each Fulfill, each Discard and each return of FinishedFile with a first
\* path, and changes at no other time; the record goes exactly when the
\* count reaches zero, so a record in the table has a count of at least 1.
\* The caller w ends Fulfill, Discard, or FinishedFile with a first path.
Decrements(w) ==
    \/ pc[w] \in {"fulfill", "discard"} /\ pc'[w] # pc[w]
    \/ /\ pc[w] \in {"attempt", "ffwoken"} /\ pc'[w] = "work"
       /\ att'[w].first # RootPath
CountedDown(i) ==
    /\ i \in DOMAIN inodes
    /\ IF inodes[i].nlink = 1 THEN i \notin DOMAIN inodes'
       ELSE /\ i \in DOMAIN inodes'
            /\ inodes'[i].nlink = inodes[i].nlink - 1
CountKept(i) ==
    i \in DOMAIN inodes => i \in DOMAIN inodes' /\ inodes'[i].nlink = inodes[i].nlink
LinksCounted ==
    IF \E w \in Spawned : Decrements(w)
    THEN \A w \in Spawned : Decrements(w) => CountedDown(att'[w].inode)
    ELSE \A i \in DOMAIN inodes : CountKept(i)
MaterializerFails(w) ==
    /\ pc[w] = "work" /\ pc'[w] = "backoff"
    /\ att[w].inode # 0 /\ att[w].first = RootPath
FailedAttemptDiscards ==
    \A w \in Workers :
        MaterializerFails(w) /\ att[w].inode \in DOMAIN inodes' =>
            /\ ~inodes'[att[w].inode].uploaded
            /\ inodes'[att[w].inode].path = RootPath
C34_FulfillOrDiscard == [][FailedAttemptDiscards]_vars

\* C35: whenever FinishedFile returns a first path, the file of that path
\* has been put in place on the destination: it is there, whole.
ReturnsFirstPath(w) ==
    /\ pc[w] \in {"attempt", "ffwoken"} /\ pc'[w] = "work"
    /\ att'[w].first # RootPath
InPlace(p) == Exists(dest, p) /\ dest[p].kind = src[p].kind /\ dest[p].size = src[p].size
C35_FirstPathInPlace ==
    [][\A w \in Workers : ReturnsFirstPath(w) => InPlace(att'[w].first)]_vars

\* C36: FinishedFile, Fulfill and Discard only dereference an inode record
\* that is in the table: no worker dies on a nil record.
C36_RecordPresent == result # PanicErr

\* C37: every call of FinishedFile returns.  A caller waits in it only
\* while a materializer of its inode is running, so the workers are never
\* all blocked; and a caller that was woken evaluates the loop again and
\* either returns or waits once more.
Materializing(w, i) == pc[w] = "work" /\ att[w].inode = i /\ att[w].first = RootPath
WaiterHasMaterializer ==
    \A w \in Workers : pc[w] = "ffwait" => \E v \in Workers : Materializing(v, att[w].inode)
WokenGoesOn ==
    \A w \in Workers : pc[w] = "ffwoken" => pc'[w] \in {"ffwoken", "ffwait", "work"}
C37_FinishedFileReturns == []WaiterHasMaterializer /\ [][WokenGoesOn]_vars

\* C38: the pairs of one listing stand directories first, then by ascending
\* path, and are taken in the reverse of that order: when a pair is taken,
\* every pair of the same listing still on the stack stands before it, so
\* no directory is taken while a non-directory of its listing is waiting.
Before(a, b) ==
    \/ IsDir(FileInfo(a)) /\ ~IsDir(FileInfo(b))
    \/ IsDir(FileInfo(a)) = IsDir(FileInfo(b)) /\ PathLess(a.path, b.path)
SameListing(a, b) ==
    Len(a.path) > 0 /\ Len(b.path) > 0 /\ Dir(a.path) = Dir(b.path)
ListingOrdered ==
    \A w \in Workers : \A i, j \in 1..Len(kids[w]) :
        i < j => Before(kids[w][i], kids[w][j])
TakenInReverse ==
    \A w \in Workers :
        pc[w] = "take" /\ pc'[w] = "fn" =>
            \A i \in 1..Len(stack') :
                SameListing(stack'[i], cur'[w]) => Before(stack'[i], cur'[w])
C38_FilesBeforeDirectories == []ListingOrdered /\ [][TakenInReverse]_vars

\* Two workers: a directory of the root listing has been taken after a file
\* of the same listing was.
C38_Witness ==
    /\ nconc = 2
    /\ \E w \in Workers :
          /\ pc[w] = "fn" /\ IsDir(FileInfo(cur[w])) /\ Len(cur[w].path) = 1
          /\ \E p \in AllPaths :
                Len(p) = 1 /\ src[p].kind = "file" /\ calls[p] >= 1

\* C39: when the transfer of a pair starts, and already when the pair is
\* pushed, its parent directory is on the destination and owner-writable.
ParentReady(p) ==
    Len(p) > 1 => IsDir(dest[Dir(p)]) /\ HasOwnerWrite(dest[Dir(p)].mode)
C39_ParentWritable ==
    /\ \A i \in 1..Len(stack) : ParentReady(stack[i].path)
    /\ \A w \in Workers :
          pc[w] \in {"attempt", "ffwait", "ffwoken", "work", "backoff"} =>
              ParentReady(cur[w].path)

\* C40: on one COW, whatever the number of concurrent writes, Mkdir of
\* <host> and Mkdir of <host>/<ts> are issued once each, no write reaches the
\* backend under wroot before both are done, and when init failed every
\* write returns its error.
MkdirsOnce ==
    /\ cowInst.wr.nhost <= 1 /\ cowInst.wr.nts <= 1
    /\ cowInst.made = "yes" => cowInst.wr.nhost = 1 /\ cowInst.wr.nts = 1
C40_InitOnceBeforeWrites ==
    MkdirsOnce /\ ~cowInst.wr.early /\ ~cowInst.wr.slipped

====
